---- MODULE Spec2Model ----
(***************************************************************************)
(* One run of the TEE pre-compute worker: compute::app_runner::start, that *)
(* is start_with_app applied to a fresh PreComputeApp.                     *)
(*                                                                         *)
(* Strings are tuples of one-character strings, so that prefixes, case and *)
(* emptiness are computed and not assumed.  Option<T> is a tuple of length *)
(* 0 (None) or 1 (Some).                                                    *)
(*                                                                         *)
(* The process environment does not change during a run and every variable *)
(* is read at most once per run, so the value of a variable is chosen at   *)
(* the step that reads it and kept in env from then on.                    *)
(***************************************************************************)
EXTENDS Integers, Sequences, FiniteSets, TLC

VARIABLES
    pc,                 \* position of the run: the step executed next
    env,                \* environment variables read so far: name -> Option<String>
    exit_mode,          \* Option<ExitMode>: what start_with_app returned
    task_id,            \* start_with_app's local chain_task_id (Option<String>)
    exit_cause,         \* start_with_app's local exit_cause (line 46)
    app,                \* PreComputeApp {chain_task_id, pre_compute_args}
    ra,                 \* read_args' locals, the configuration being built
    run_result,         \* Option<Result>: what PreComputeApp::run returned
    gateway_idx,        \* download_encrypted_dataset: next gateway of find_map
    downloaded,         \* download_encrypted_dataset's local encrypted_content
    decrypt_calls,      \* history: the arguments decrypt_dataset was called with
    encrypted_content,  \* Option<bytes>: run's local encrypted_content
    plain_content,      \* Option<bytes>: run's local plain_content
    input_idx,          \* download_input_files: index of the next URL
    dirs,               \* file system: the directories that exist
    files,              \* file system: path -> content of the regular files
    worker_address,     \* get_challenge's local worker_address
    challenge_key,      \* get_challenge's local tee_challenge_private_key
    challenge,          \* Option<Result>: what get_challenge returned
    client,             \* Option<WorkerApiClient.base_url>
    steps,              \* history: the steps of run executed, in order
    fetches,            \* history: the GETs sent, in order, with what came back
    writes,             \* history: the fs::write calls, in order
    posts               \* history: the report POSTs sent, in order

vars == <<pc, env, exit_mode, task_id, exit_cause, app, ra, run_result,
          gateway_idx, downloaded, decrypt_calls, encrypted_content,
          plain_content, input_idx, dirs,
          files, worker_address, challenge_key, challenge, client, steps,
          fetches, writes, posts>>

-----------------------------------------------------------------------------
(* Option and Result *)

None == <<>>
Some(v) == <<v>>
IsSome(o) == Len(o) = 1
IsNone(o) == Len(o) = 0
Unwrap(o) == o[1]

Ok(v) == [ok |-> TRUE, val |-> v, err |-> "none"]
Err(c) == [ok |-> FALSE, val |-> <<>>, err |-> c]
Unit == <<>>

-----------------------------------------------------------------------------
(* The bounds of the model *)

\* The largest input-file count the environment declares.
MaxInputFiles == 2

\* the longest list of input URLs of a configuration built directly
MaxUrls == 3

\* the longest task id, in characters after the prefix, of a call of
\* get_challenge on its own
MaxTaskIdDigits == 2

\* the longest plaintext, in bytes, of a call of decrypt_dataset on its own
MaxPlainLen == 2

\* Calls of the functions of file_utils.rs made one after the other
MaxCalls == 2

-----------------------------------------------------------------------------
(* ExitMode, compute/app_runner.rs *)

ExitMode == {"Success", "ReportedFailure", "UnreportedFailure", "InitializationFailure"}

ExitCode(m) ==
    CASE m = "Success" -> 0
      [] m = "ReportedFailure" -> 1
      [] m = "UnreportedFailure" -> 2
      [] m = "InitializationFailure" -> 3

(* ReplicateStatusCause, compute/errors.rs *)

ReplicateStatusCause == {
    "PreComputeAtLeastOneInputFileUrlMissing",
    "PreComputeDatasetChecksumMissing",
    "PreComputeDatasetDecryptionFailed",
    "PreComputeDatasetDownloadFailed",
    "PreComputeDatasetFilenameMissing",
    "PreComputeDatasetKeyMissing",
    "PreComputeDatasetUrlMissing",
    "PreComputeFailedUnknownIssue",
    "PreComputeInvalidTeeSignature",
    "PreComputeIsDatasetRequiredMissing",
    "PreComputeInputFileDownloadFailed",
    "PreComputeInputFilesNumberMissing",
    "PreComputeInvalidDatasetChecksum",
    "PreComputeOutputFolderNotFound",
    "PreComputeOutputPathMissing",
    "PreComputeSavingPlainDatasetFailed",
    "PreComputeTaskIdMissing",
    "PreComputeTeeChallengePrivateKeyMissing",
    "PreComputeWorkerAddressMissing" }

-----------------------------------------------------------------------------
(* TeeSessionEnvironmentVariable::name, compute/utils/env_utils.rs *)

EnvName(v) ==
    CASE v = "IexecDatasetChecksum" -> "IEXEC_DATASET_CHECKSUM"
      [] v = "IexecDatasetFilename" -> "IEXEC_DATASET_FILENAME"
      [] v = "IexecDatasetKey" -> "IEXEC_DATASET_KEY"
      [] v = "IexecDatasetUrl" -> "IEXEC_DATASET_URL"
      [] v = "IexecInputFilesNumber" -> "IEXEC_INPUT_FILES_NUMBER"
      [] v = "IexecPreComputeOut" -> "IEXEC_PRE_COMPUTE_OUT"
      [] v = "IexecTaskId" -> "IEXEC_TASK_ID"
      [] v = "IsDatasetRequired" -> "IS_DATASET_REQUIRED"
      [] v = "SignTeeChallengePrivateKey" -> "SIGN_TEE_CHALLENGE_PRIVATE_KEY"
      [] v = "SignWorkerAddress" -> "SIGN_WORKER_ADDRESS"
      [] v = "WorkerHostEnvVar" -> "WORKER_HOST_ENV_VAR"

\* mutant: the indexes are counted from zero
InputFileUrlName_from_zero(index) == "IEXEC_INPUT_FILE_URL_" \o ToString(index - 1)

\* IexecInputFileUrlPrefix(index) => format!("IEXEC_INPUT_FILE_URL_{index}")
InputFileUrlName(index) == "IEXEC_INPUT_FILE_URL_" \o ToString(index)

\* mutant: the emptiness guard of the match arm is dropped
get_env_var_or_error_keeps_empty(value, status_cause_if_missing) ==
    IF IsSome(value) THEN Ok(Unwrap(value)) ELSE Err(status_cause_if_missing)

\* mutant: the caller's cause is replaced by the generic one
get_env_var_or_error_generic_cause(value, status_cause_if_missing) ==
    IF IsSome(value) /\ Unwrap(value) # <<>>
        THEN Ok(Unwrap(value))
        ELSE Err("PreComputeFailedUnknownIssue")

\* get_env_var_or_error: Ok(value) when the variable is set and not empty,
\* Err(status_cause_if_missing) otherwise.
get_env_var_or_error(value, status_cause_if_missing) ==
    IF IsSome(value) /\ Unwrap(value) # <<>>
        THEN Ok(Unwrap(value))
        ELSE Err(status_cause_if_missing)

-----------------------------------------------------------------------------
(* Strings *)

Https == <<"h", "t", "t", "p", "s", ":", "/", "/">>
Http == <<"h", "t", "t", "p", ":", "/", "/">>

StartsWith(s, prefix) ==
    Len(s) >= Len(prefix) /\ SubSeq(s, 1, Len(prefix)) = prefix

\* str::to_lowercase, on the letters the model's values use
LowerChar(c) ==
    CASE c = "A" -> "a" [] c = "B" -> "b" [] c = "C" -> "c" [] c = "D" -> "d"
      [] c = "E" -> "e" [] c = "F" -> "f" [] c = "L" -> "l" [] c = "R" -> "r"
      [] c = "S" -> "s" [] c = "T" -> "t" [] c = "U" -> "u" [] c = "X" -> "x"
      [] OTHER -> c

to_lowercase(s) == [i \in 1..Len(s) |-> LowerChar(s[i])]

UpperChar(c) ==
    CASE c = "a" -> "A" [] c = "b" -> "B" [] c = "c" -> "C" [] c = "d" -> "D"
      [] c = "e" -> "E" [] c = "f" -> "F"
      [] OTHER -> c

to_uppercase(s) == [i \in 1..Len(s) |-> UpperChar(s[i])]

\* mutant: whatever is not "true" is taken for false
parse_bool_lenient(s) ==
    IF s = <<"t", "r", "u", "e">> THEN Ok(TRUE) ELSE Ok(FALSE)

\* str::parse::<bool>: exactly "true" or "false"
parse_bool(s) ==
    IF s = <<"t", "r", "u", "e">> THEN Ok(TRUE)
    ELSE IF s = <<"f", "a", "l", "s", "e">> THEN Ok(FALSE)
    ELSE Err("ParseBoolError")

DecDigit(c) ==
    CASE c = "0" -> 0 [] c = "1" -> 1 [] c = "2" -> 2 [] c = "3" -> 3
      [] c = "4" -> 4 [] c = "5" -> 5 [] c = "6" -> 6 [] c = "7" -> 7
      [] c = "8" -> 8 [] c = "9" -> 9 [] OTHER -> -1

RECURSIVE DecValue(_)
DecValue(s) ==
    IF s = <<>> THEN 0 ELSE 10 * DecValue(SubSeq(s, 1, Len(s) - 1)) + DecDigit(s[Len(s)])

\* mutant: a text that is not a number counts as zero
parse_usize_lenient(s) ==
    LET digits == IF s # <<>> /\ s[1] = "+" THEN Tail(s) ELSE s
    IN  IF digits # <<>> /\ \A i \in 1..Len(digits) : DecDigit(digits[i]) >= 0
            THEN Ok(DecValue(digits))
            ELSE Ok(0)

\* str::parse::<usize>: an optional "+", then one or more decimal digits
parse_usize(s) ==
    LET digits == IF s # <<>> /\ s[1] = "+" THEN Tail(s) ELSE s
    IN  IF digits # <<>> /\ \A i \in 1..Len(digits) : DecDigit(digits[i]) >= 0
            THEN Ok(DecValue(digits))
            ELSE Err("ParseIntError")

DecChar(n) == <<"0", "1", "2", "3", "4", "5", "6", "7", "8", "9">>[n + 1]

-----------------------------------------------------------------------------
(* The values the environment may hold, per variable *)

TaskIdHex == <<"0", "x", "1", "2", "3">>
TaskIdNotHex == <<"z", "z">>

WorkerAddressHex == <<"0", "x", "a", "b">>
WorkerAddressNotHex == <<"0", "x", "g", "1">>

OutDir == <<"/", "d">>          \* an existing directory
OutFile == <<"/", "f">>         \* an existing regular file
OutMissing == <<"/", "n">>      \* nothing exists at this path

HttpDatasetUrl == Http \o <<"d", "s">>
IpfsDatasetUrl == <<"/", "i", "p", "f", "s", "/", "Q">>

InputUrlA == Http \o <<"a">>
InputUrlB == Http \o <<"b">>
InputUrlIpfs == <<"/", "i", "p", "f", "s", "/", "R">>
InputUrlC == Http \o <<"c">>

PlainDataFile == <<"p", "l", "a", "i", "n">>

Absent == {None, Some(<<>>)}

\* "0" .. MaxInputFiles as decimal strings (MaxInputFiles < 10)
CountStrings == {<<DecChar(n)>> : n \in 0..MaxInputFiles}

-----------------------------------------------------------------------------
(* compute/utils/hash_utils.rs *)

HexDigit(c) ==
    CASE c = "0" -> 0 [] c = "1" -> 1 [] c = "2" -> 2 [] c = "3" -> 3
      [] c = "4" -> 4 [] c = "5" -> 5 [] c = "6" -> 6 [] c = "7" -> 7
      [] c = "8" -> 8 [] c = "9" -> 9
      [] c \in {"a", "A"} -> 10 [] c \in {"b", "B"} -> 11
      [] c \in {"c", "C"} -> 12 [] c \in {"d", "D"} -> 13
      [] c \in {"e", "E"} -> 14 [] c \in {"f", "F"} -> 15
      [] OTHER -> -1

LowerHexChar(n) ==
    <<"0", "1", "2", "3", "4", "5", "6", "7", "8", "9", "a", "b", "c", "d", "e", "f">>[n + 1]

\* format!("{:x}"): two lowercase hexadecimal digits per byte
RECURSIVE LowerHex(_)
LowerHex(bytes) ==
    IF bytes = <<>> THEN <<>>
    ELSE <<LowerHexChar(Head(bytes) \div 16), LowerHexChar(Head(bytes) % 16)>>
            \o LowerHex(Tail(bytes))

\* u8::from_str_radix(s, 16) on a slice of one or two characters: an
\* optional "+", then one or more hexadecimal digits.
u8_from_str_radix_16(s) ==
    LET digits == IF s # <<>> /\ s[1] = "+" THEN Tail(s) ELSE s
    IN  IF digits # <<>> /\ \A i \in 1..Len(digits) : HexDigit(digits[i]) >= 0
            THEN Ok(IF Len(digits) = 1 THEN HexDigit(digits[1])
                    ELSE 16 * HexDigit(digits[1]) + HexDigit(digits[2]))
            ELSE Err("ParseIntError")

\* input.strip_prefix("0x").unwrap_or(input)
clean_hex_prefix(input) ==
    IF StartsWith(input, <<"0", "x">>) THEN SubSeq(input, 3, Len(input)) ELSE input

\* The slices hex_string_to_byte_array parses, in order: the first character
\* alone when the length is odd, then the pairs.
HexSlices(clean_input) ==
    LET len == Len(clean_input)
        start_idx == IF len % 2 # 0 THEN 1 ELSE 0
        first == IF start_idx = 1 THEN <<SubSeq(clean_input, 1, 1)>> ELSE <<>>
    IN  first \o [k \in 1..((len - start_idx) \div 2) |->
                    SubSeq(clean_input, start_idx + 2 * k - 1, start_idx + 2 * k)]

\* hex_string_to_byte_array: the bytes, or a panic when a slice does not
\* parse (.expect("") on the ParseIntError).
hex_string_to_byte_array(input) ==
    LET slices == HexSlices(clean_hex_prefix(input))
    IN  IF \A k \in 1..Len(slices) : u8_from_str_radix_16(slices[k]).ok
            THEN [panic |-> FALSE,
                  bytes |-> [k \in 1..Len(slices) |-> u8_from_str_radix_16(slices[k]).val]]
            ELSE [panic |-> TRUE, bytes |-> <<>>]

\* Keccak256 of the bytes fed to the hasher: an injective tagging of the
\* pre-image (the digest of the sha3 crate, collision-free).
Keccak256(bytes) == <<107>> \o bytes

\* mutant: only the first string is fed to the hasher
RECURSIVE ConcatBytes_first_only(_)
ConcatBytes_first_only(hexa_strings) ==
    IF hexa_strings = <<>> THEN <<>>
    ELSE hex_string_to_byte_array(Head(hexa_strings)).bytes

RECURSIVE ConcatBytes(_)
ConcatBytes(hexa_strings) ==
    IF hexa_strings = <<>> THEN <<>>
    ELSE hex_string_to_byte_array(Head(hexa_strings)).bytes \o ConcatBytes(Tail(hexa_strings))

\* concatenate_and_hash: "0x" and the lowercase hexadecimal digest, or a
\* panic when one of the strings is not hexadecimal.
concatenate_and_hash(hexa_strings) ==
    IF \E k \in 1..Len(hexa_strings) : hex_string_to_byte_array(hexa_strings[k]).panic
        THEN [panic |-> TRUE, val |-> <<>>]
        ELSE [panic |-> FALSE,
              val |-> <<"0", "x">> \o LowerHex(Keccak256(ConcatBytes(hexa_strings)))]

-----------------------------------------------------------------------------
(* Dataset decryption, compute/pre_compute_app.rs *)

AES_KEY_LENGTH == 32
AES_IV_LENGTH == 16

Bytes(n, b) == [i \in 1..n |-> b]

\* The AES-256 key of the dataset and its base64 text
DatasetKey == [i \in 1..AES_KEY_LENGTH |-> IF i % 2 = 0 THEN 3 ELSE 5]
DatasetKeyBase64 == <<"a", "2", "V", "5", "=", "=">>
\* valid base64 of a key that is too short
ShortKey == Bytes(AES_IV_LENGTH, 9)
ShortKeyBase64 == <<"c", "2", "g", "=">>
\* another AES-256 key, with a different byte at every position
SecondKey == [i \in 1..AES_KEY_LENGTH |-> i]
SecondKeyBase64 == <<"a", "2", "V", "6", "=", "=">>
\* not base64: '_' is outside the alphabet
BadKeyBase64 == <<"b", "a", "d", "_", "k", "e", "y">>

\* general_purpose::STANDARD.decode, on the key texts of the model
base64_decode(text) ==
    IF text = DatasetKeyBase64 THEN Ok(DatasetKey)
    ELSE IF text = SecondKeyBase64 THEN Ok(SecondKey)
    ELSE IF text = ShortKeyBase64 THEN Ok(ShortKey)
    ELSE Err("DecodeError")

\* The block cipher: a keyed byte-wise permutation of a 16-byte block
\* (stands for AES-256; XOR is rendered as addition modulo 256).
KeyByte(key, i) == (key[i] + key[i + AES_IV_LENGTH]) % 256
EncryptBlock(key, block) == [i \in 1..AES_IV_LENGTH |-> (block[i] + KeyByte(key, i)) % 256]
DecryptBlock(key, block) == [i \in 1..AES_IV_LENGTH |-> (block[i] + 256 - KeyByte(key, i)) % 256]
Mix(a, b) == [i \in 1..AES_IV_LENGTH |-> (a[i] + b[i]) % 256]
Unmix(a, b) == [i \in 1..AES_IV_LENGTH |-> (a[i] + 256 - b[i]) % 256]

Block(data, k) == SubSeq(data, AES_IV_LENGTH * (k - 1) + 1, AES_IV_LENGTH * k)

\* mutant: every block is decrypted against the IV, not the block before it
RECURSIVE CbcDecrypt_unchained(_, _, _)
CbcDecrypt_unchained(key, prev, ciphertext) ==
    IF ciphertext = <<>> THEN <<>>
    ELSE Unmix(DecryptBlock(key, Block(ciphertext, 1)), prev)
            \o CbcDecrypt_unchained(key, prev,
                          SubSeq(ciphertext, AES_IV_LENGTH + 1, Len(ciphertext)))

\* CBC decryption of whole blocks
RECURSIVE CbcDecrypt(_, _, _)
CbcDecrypt(key, prev, ciphertext) ==
    IF ciphertext = <<>> THEN <<>>
    ELSE Unmix(DecryptBlock(key, Block(ciphertext, 1)), prev)
            \o CbcDecrypt(key, Block(ciphertext, 1),
                          SubSeq(ciphertext, AES_IV_LENGTH + 1, Len(ciphertext)))

RECURSIVE CbcEncrypt(_, _, _)
CbcEncrypt(key, prev, padded) ==
    IF padded = <<>> THEN <<>>
    ELSE LET c == EncryptBlock(key, Mix(Block(padded, 1), prev))
         IN  c \o CbcEncrypt(key, c, SubSeq(padded, AES_IV_LENGTH + 1, Len(padded)))

Pkcs7Pad(plain) ==
    LET n == AES_IV_LENGTH - (Len(plain) % AES_IV_LENGTH)
    IN  plain \o Bytes(n, n)

Pkcs7Unpad(data) ==
    IF data = <<>> THEN Err("UnpadError")
    ELSE LET n == data[Len(data)]
         IN  IF n >= 1 /\ n <= AES_IV_LENGTH /\ n <= Len(data)
                   /\ \A i \in (Len(data) - n + 1)..Len(data) : data[i] = n
                 THEN Ok(SubSeq(data, 1, Len(data) - n))
                 ELSE Err("UnpadError")

\* Decryptor::new(key, iv).decrypt_padded_vec_mut::<Pkcs7>(ciphertext)
decrypt_padded_vec_mut(key, iv, ciphertext) ==
    IF Len(ciphertext) % AES_IV_LENGTH # 0 THEN Err("UnpadError")
    ELSE Pkcs7Unpad(CbcDecrypt(key, iv, ciphertext))

\* mutant: when the padding is wrong the bytes are returned as they are
decrypt_dataset_result_unpadded(base64_key, content) ==
    LET key == base64_decode(base64_key)
    IN  IF ~key.ok THEN Err("PreComputeDatasetDecryptionFailed")
        ELSE IF Len(content) < AES_IV_LENGTH \/ Len(key.val) # AES_KEY_LENGTH
            THEN Err("PreComputeDatasetDecryptionFailed")
        ELSE LET key_slice == SubSeq(key.val, 1, AES_KEY_LENGTH)
                 iv_slice == SubSeq(content, 1, AES_IV_LENGTH)
                 ciphertext == SubSeq(content, AES_IV_LENGTH + 1, Len(content))
                 plain == decrypt_padded_vec_mut(key_slice, iv_slice, ciphertext)
             IN  IF plain.ok THEN Ok(plain.val) ELSE Ok(ciphertext)

\* decrypt_dataset(encrypted_content) with the configured base64 key
decrypt_dataset_result(base64_key, content) ==
    LET key == base64_decode(base64_key)
    IN  IF ~key.ok THEN Err("PreComputeDatasetDecryptionFailed")
        ELSE IF Len(content) < AES_IV_LENGTH \/ Len(key.val) # AES_KEY_LENGTH
            THEN Err("PreComputeDatasetDecryptionFailed")
        ELSE LET key_slice == SubSeq(key.val, 1, AES_KEY_LENGTH)
                 iv_slice == SubSeq(content, 1, AES_IV_LENGTH)
                 ciphertext == SubSeq(content, AES_IV_LENGTH + 1, Len(content))
                 plain == decrypt_padded_vec_mut(key_slice, iv_slice, ciphertext)
             IN  IF plain.ok THEN Ok(plain.val)
                 ELSE Err("PreComputeDatasetDecryptionFailed")

\* The contents the network may serve
PlainData == <<83, 111, 109, 101>>
DatasetIv == Bytes(AES_IV_LENGTH, 1)
ValidCiphertext == DatasetIv \o CbcEncrypt(DatasetKey, DatasetIv, Pkcs7Pad(PlainData))
BadPaddingContent == DatasetIv \o Bytes(AES_IV_LENGTH, 0)
ShortContent == <<1, 2, 3>>
InputContent == <<4, 5>>

-----------------------------------------------------------------------------
(* SHA-256, compute/utils/hash_utils.rs *)

IndexIn(seq, x) ==
    IF \E i \in 1..Len(seq) : seq[i] = x
        THEN CHOOSE i \in 1..Len(seq) : seq[i] = x
        ELSE 0

\* sha256::digest of bytes and of a string: lowercase hexadecimal, distinct
\* for distinct inputs of the model (the digest is collision-free).
DigestOfBytes(bytes) ==
    <<"a", LowerHexChar(9 + IndexIn(<<ValidCiphertext, BadPaddingContent,
                                      ShortContent, InputContent>>, bytes))>>
DigestOfString(input) ==
    <<"e", LowerHexChar(9 + IndexIn(<<InputUrlA, InputUrlB, InputUrlIpfs,
                                      HttpDatasetUrl, IpfsDatasetUrl, InputUrlC>>,
                                    input))>>

\* mutant: the digest is returned as sha256::digest gives it
sha256_bare_digest(input) == DigestOfString(input)

\* format!("0x{}", digest(..)), lines 41 and 45
sha256(input) == <<"0", "x">> \o DigestOfString(input)
sha256_from_bytes(bytes) == <<"0", "x">> \o DigestOfBytes(bytes)

-----------------------------------------------------------------------------
(* Paths and files, compute/utils/file_utils.rs *)

Slash == <<"/">>

\* Path::join / PathBuf::push: an absolute argument replaces the path
PathJoin(parent, name) ==
    IF StartsWith(name, Slash) THEN name
    ELSE IF parent = <<>> \/ parent[Len(parent)] = "/" THEN parent \o name
    ELSE parent \o Slash \o name

LastSlash(path) ==
    IF \E i \in 1..Len(path) : path[i] = "/"
        THEN CHOOSE i \in 1..Len(path) :
                path[i] = "/" /\ \A j \in (i + 1)..Len(path) : path[j] # "/"
        ELSE 0

\* Path::parent, as the directory fs::write needs
ParentDir(path) ==
    LET i == LastSlash(path)
    IN  IF i = 0 THEN <<>> ELSE IF i = 1 THEN Slash ELSE SubSeq(path, 1, i - 1)

PathIsDir(ds, path) == path \in ds
PathExists(ds, fs, path) == path \in ds \/ path \in DOMAIN fs

\* fs::write can succeed only on a path that is not a directory, inside an
\* existing directory; it may also fail for reasons the program does not
\* control (permissions, a full disk).
CanWrite(ds, path) == path # <<>> /\ ~PathIsDir(ds, path) /\ PathIsDir(ds, ParentDir(path))

-----------------------------------------------------------------------------
(* The network *)

\* reqwest::Url parsing of a GET target: an http(s) scheme and a host
UrlParses(url) ==
    \/ StartsWith(url, Http) /\ Len(url) > Len(Http)
    \/ StartsWith(url, Https) /\ Len(url) > Len(Https)

\* What get(url) comes back with, line 169: None when no response arrived
\* (the connection failed, the redirects did not end) or the response that
\* arrived, with its status and its body.
StatusCodes == {200, 204, 304, 404, 500}
Bodies == {<<>>, InputContent}
HttpAnswers == {None} \cup {Some([status |-> s, body |-> b]) : s \in StatusCodes, b \in Bodies}

\* Response::error_for_status, line 170: an error when the status is a client
\* error (4xx) or a server error (5xx), the response itself otherwise
error_for_status(response) ==
    IF response.status \in 400..599 THEN Err("Status") ELSE Ok(response)

\* get(url).and_then(error_for_status).and_then(bytes), lines 169-171, as
\* Some(bytes) on Ok and None on Err
ReceivedBytes(answer) ==
    IF IsNone(answer) THEN None
    ELSE IF ~error_for_status(Unwrap(answer)).ok THEN None
    ELSE Some(Unwrap(answer).body)

\* What lines 169-171 give for the GETs of a run: None (no response, or a
\* response turned into an error by error_for_status) or the body received.
DatasetResponses == {None, Some(ValidCiphertext), Some(BadPaddingContent), Some(ShortContent)}
InputResponses == {None, Some(InputContent)}

\* mutant: a URL is handed to the network without being parsed
download_from_url_unparsed(url, response) ==
    IF url = <<>> THEN None ELSE response

\* download_from_url(url), given what the network answers when asked
download_from_url(url, response) ==
    IF url = <<>> THEN None
    ELSE IF ~UrlParses(url) THEN None
    ELSE response

\* a GET that was sent, lines 169-171: its target and what came back
Fetch(url, response) == [url |-> url, response |-> response]

\* whether download_from_url(url) sends a request at all
SendsRequest(url) == url # <<>> /\ UrlParses(url)

\* Multiaddr::from_str(uri).is_ok(): the empty string, or /ipfs/<cid>
MultiaddrParses(uri) ==
    \/ uri = <<>>
    \/ StartsWith(uri, <<"/", "i", "p", "f", "s", "/">>) /\ Len(uri) > 6

\* uri.trim().is_empty()
IsBlank(s) == \A i \in 1..Len(s) : s[i] = " "

is_multi_address(uri) == ~IsBlank(uri) /\ MultiaddrParses(uri)

IPFS_GATEWAYS == <<Https \o <<"g", "1">>, Https \o <<"g", "2">>, Https \o <<"g", "3">>>>

-----------------------------------------------------------------------------
(* The environment *)

ValidPrivateKey == <<"0", "x", "d", "d">>
InvalidPrivateKey == <<"k", "e", "y">>
WorkerHost == <<"w", ":", "1">>
AbsoluteFilename == <<"/", "e">>

TaskIdValues == Absent \cup {Some(TaskIdHex), Some(TaskIdNotHex)}
OutputDirValues == Absent \cup {Some(OutDir), Some(OutFile), Some(OutMissing)}
IsDatasetRequiredValues ==
    Absent \cup {Some(<<"t", "r", "u", "e">>), Some(<<"T", "R", "U", "E">>),
                 Some(<<"f", "a", "l", "s", "e">>), Some(<<"y", "e", "s">>)}
DatasetUrlValues == Absent \cup {Some(HttpDatasetUrl), Some(IpfsDatasetUrl)}
DatasetKeyValues ==
    Absent \cup {Some(DatasetKeyBase64), Some(ShortKeyBase64), Some(BadKeyBase64)}
DatasetChecksumValues ==
    Absent \cup {Some(sha256_from_bytes(ValidCiphertext)),
                 Some(DigestOfBytes(ValidCiphertext)),
                 Some(<<"0", "x">> \o to_uppercase(DigestOfBytes(ValidCiphertext))),
                 Some(sha256_from_bytes(ShortContent))}
DatasetFilenameValues == Absent \cup {Some(PlainDataFile), Some(AbsoluteFilename)}
InputFilesNumberValues ==
    Absent \cup {Some(c) : c \in CountStrings} \cup {Some(<<"-", "1">>), Some(<<"x">>)}
InputFileUrlValues == Absent \cup {Some(InputUrlA), Some(InputUrlB), Some(InputUrlIpfs)}
WorkerAddressValues == Absent \cup {Some(WorkerAddressHex), Some(WorkerAddressNotHex)}
ChallengeKeyValues == Absent \cup {Some(ValidPrivateKey), Some(InvalidPrivateKey)}
WorkerHostValues == Absent \cup {Some(WorkerHost)}

\* env::var(name) returns value: the variable has not been read before
ReadEnv(name, value) == env' = (name :> value) @@ env

-----------------------------------------------------------------------------
(* Initial state: start() has built PreComputeApp::new() *)

NoArgs ==
    [output_dir |-> None, is_dataset_required |-> None,
     encrypted_dataset_url |-> None, encrypted_dataset_base64_key |-> None,
     encrypted_dataset_checksum |-> None, plain_dataset_filename |-> None,
     input_files_nb |-> None, input_files |-> <<>>]

Init ==
    /\ pc = "start_with_app"
    /\ env = <<>>
    /\ exit_mode = None
    /\ task_id = None
    /\ exit_cause = "PreComputeFailedUnknownIssue"
    /\ app = [chain_task_id |-> None, pre_compute_args |-> None]
    /\ ra = NoArgs
    /\ run_result = None
    /\ gateway_idx = 1
    /\ downloaded = None
    /\ decrypt_calls = <<>>
    /\ encrypted_content = None
    /\ plain_content = None
    /\ input_idx = 1
    /\ dirs = {Slash, OutDir}
    /\ files = (OutFile :> <<>>)
    /\ worker_address = None
    /\ challenge_key = None
    /\ challenge = None
    /\ client = None
    /\ steps = <<>>
    /\ fetches = <<>>
    /\ writes = <<>>
    /\ posts = <<>>

runLocals == <<gateway_idx, downloaded, decrypt_calls, encrypted_content,
               plain_content, input_idx>>
fsVars == <<dirs, files, writes>>
challengeVars == <<worker_address, challenge_key, challenge, client, posts>>

-----------------------------------------------------------------------------
(* start_with_app, compute/app_runner.rs lines 43-54 *)

\* what the Err arm of `match pre_compute_app.run(..)` leaves in the
\* exit_cause that the rest of start_with_app reads: the arm binds a new
\* exit_cause of its own, the outer one keeps its value
ExitCauseAfterRun(outer, returned) == outer

start_with_app ==
    /\ pc = "start_with_app"
    /\ \E value \in TaskIdValues :
        /\ ReadEnv(EnvName("IexecTaskId"), value)
        /\ LET id == get_env_var_or_error(value, "PreComputeTaskIdMissing")
           IN  IF id.ok
                 THEN /\ task_id' = Some(id.val)
                      /\ pc' = "run"
                      /\ exit_mode' = exit_mode
                 ELSE /\ task_id' = task_id
                      /\ pc' = "done"
                      /\ exit_mode' = Some("InitializationFailure")
    /\ UNCHANGED <<exit_cause, app, ra, run_result, runLocals, fsVars,
                   challengeVars, steps, fetches>>

\* steps: a step of run is entered, and later returns "Ok" or its cause
Entered(name) == [step |-> name, result |-> "running"]
Returned(name, result) == [step |-> name, result |-> result]
Finish(ss, result) == [ss EXCEPT ![Len(ss)].result = result]

\* run returns Err(cause) to start_with_app (the `?` of lines 54-61), which
\* goes on to get_challenge
RunReturnsErr(cause) ==
    /\ run_result' = Some(Err(cause))
    /\ exit_cause' = ExitCauseAfterRun(exit_cause, cause)
    /\ pc' = "get_challenge"

\* the step that is running fails with cause
RunFails(cause) ==
    /\ steps' = Finish(steps, cause)
    /\ RunReturnsErr(cause)

\* mutant: the verified content is saved as it is, without decryption
AfterStep_skips_decryption(step, is_dataset_required) ==
    CASE step = "read_args" -> "check_output_folder"
      [] step = "check_output_folder" ->
            IF is_dataset_required THEN "download_encrypted_dataset"
                                   ELSE "download_input_files"
      [] step = "download_encrypted_dataset" -> "save_plain_dataset_file"
      [] step = "decrypt_dataset" -> "save_plain_dataset_file"
      [] step = "save_plain_dataset_file" -> "download_input_files"
      [] step = "download_input_files" -> "run_returns_ok"

\* mutant: the dataset steps are skipped whatever is_dataset_required says
AfterStep_skips_dataset(step, is_dataset_required) ==
    CASE step = "read_args" -> "check_output_folder"
      [] step = "check_output_folder" -> "download_input_files"
      [] step = "download_encrypted_dataset" -> "decrypt_dataset"
      [] step = "decrypt_dataset" -> "save_plain_dataset_file"
      [] step = "save_plain_dataset_file" -> "download_input_files"
      [] step = "download_input_files" -> "run_returns_ok"

\* mutant: the dataset steps are run whatever is_dataset_required says
AfterStep_always_dataset(step, is_dataset_required) ==
    CASE step = "read_args" -> "check_output_folder"
      [] step = "check_output_folder" -> "download_encrypted_dataset"
      [] step = "download_encrypted_dataset" -> "decrypt_dataset"
      [] step = "decrypt_dataset" -> "save_plain_dataset_file"
      [] step = "save_plain_dataset_file" -> "download_input_files"
      [] step = "download_input_files" -> "run_returns_ok"

\* the sequence of run, lines 55-62: where run goes on after a step
\* returned Ok
AfterStep(step, is_dataset_required) ==
    CASE step = "read_args" -> "check_output_folder"
      [] step = "check_output_folder" ->
            IF is_dataset_required THEN "download_encrypted_dataset"
                                   ELSE "download_input_files"
      [] step = "download_encrypted_dataset" -> "decrypt_dataset"
      [] step = "decrypt_dataset" -> "save_plain_dataset_file"
      [] step = "save_plain_dataset_file" -> "download_input_files"
      [] step = "download_input_files" -> "run_returns_ok"

-----------------------------------------------------------------------------
(* PreComputeApp::run line 53, then PreComputeArgs::read_args *)

run ==
    /\ pc = "run"
    /\ app' = [app EXCEPT !.chain_task_id = task_id]
    /\ pc' = "read_args_output_dir"
    /\ steps' = Append(steps, Entered("read_args"))
    /\ UNCHANGED <<env, exit_mode, task_id, exit_cause, ra, run_result, runLocals,
                   fsVars, challengeVars, fetches>>

readArgsFrame == <<exit_mode, task_id, app, runLocals, fsVars, challengeVars,
                   fetches>>

\* One required variable of read_args: on Ok the local `field` is set and
\* read_args goes on at `next`, on Err read_args and run return the cause.
ReadRequired(var, values, cause, field, next) ==
    \E value \in values :
        /\ ReadEnv(EnvName(var), value)
        /\ LET r == get_env_var_or_error(value, cause)
           IN  IF r.ok
                 THEN /\ ra' = [ra EXCEPT ![field] = Some(r.val)]
                      /\ pc' = next
                      /\ UNCHANGED <<run_result, exit_cause, steps>>
                 ELSE /\ ra' = ra
                      /\ RunFails(r.err)
        /\ UNCHANGED readArgsFrame

read_args_output_dir ==
    /\ pc = "read_args_output_dir"
    /\ ReadRequired("IexecPreComputeOut", OutputDirValues,
                    "PreComputeOutputPathMissing", "output_dir",
                    "read_args_is_dataset_required")


\* lines 58-65 and the branch of line 72
read_args_is_dataset_required ==
    /\ pc = "read_args_is_dataset_required"
    /\ \E value \in IsDatasetRequiredValues :
        /\ ReadEnv(EnvName("IsDatasetRequired"), value)
        /\ LET str == get_env_var_or_error(value, "PreComputeIsDatasetRequiredMissing")
               parsed == parse_bool(to_lowercase(str.val))
           IN  IF ~str.ok THEN ra' = ra /\ RunFails(str.err)
               ELSE IF ~parsed.ok
                 THEN ra' = ra /\ RunFails("PreComputeIsDatasetRequiredMissing")
               ELSE /\ ra' = [ra EXCEPT !.is_dataset_required = Some(parsed.val)]
                    /\ pc' = IF parsed.val THEN "read_args_dataset_url"
                                           ELSE "read_args_input_files_number"
                    /\ UNCHANGED <<run_result, exit_cause, steps>>
    /\ UNCHANGED readArgsFrame

read_args_dataset_url ==
    /\ pc = "read_args_dataset_url"
    /\ ReadRequired("IexecDatasetUrl", DatasetUrlValues,
                    "PreComputeDatasetUrlMissing", "encrypted_dataset_url",
                    "read_args_dataset_key")

read_args_dataset_key ==
    /\ pc = "read_args_dataset_key"
    /\ ReadRequired("IexecDatasetKey", DatasetKeyValues,
                    "PreComputeDatasetKeyMissing", "encrypted_dataset_base64_key",
                    "read_args_dataset_checksum")

read_args_dataset_checksum ==
    /\ pc = "read_args_dataset_checksum"
    /\ ReadRequired("IexecDatasetChecksum", DatasetChecksumValues,
                    "PreComputeDatasetChecksumMissing", "encrypted_dataset_checksum",
                    "read_args_dataset_filename")

read_args_dataset_filename ==
    /\ pc = "read_args_dataset_filename"
    /\ ReadRequired("IexecDatasetFilename", DatasetFilenameValues,
                    "PreComputeDatasetFilenameMissing", "plain_dataset_filename",
                    "read_args_input_files_number")

\* lines 91-99
read_args_input_files_number ==
    /\ pc = "read_args_input_files_number"
    /\ \E value \in InputFilesNumberValues :
        /\ ReadEnv(EnvName("IexecInputFilesNumber"), value)
        /\ LET str == get_env_var_or_error(value, "PreComputeInputFilesNumberMissing")
               parsed == parse_usize(str.val)
           IN  IF ~str.ok THEN ra' = ra /\ RunFails(str.err)
               ELSE IF ~parsed.ok
                 THEN ra' = ra /\ RunFails("PreComputeInputFilesNumberMissing")
               ELSE /\ ra' = [ra EXCEPT !.input_files_nb = Some(parsed.val)]
                    /\ pc' = IF parsed.val >= 1 THEN "read_args_input_file_url"
                                                ELSE "read_args_return"
                    /\ UNCHANGED <<run_result, exit_cause, steps>>
    /\ UNCHANGED readArgsFrame

\* one iteration of `for i in 1..=input_files_nb`, lines 100-106
read_args_input_file_url ==
    /\ pc = "read_args_input_file_url"
    /\ LET i == Len(ra.input_files) + 1
       IN  \E value \in InputFileUrlValues :
            /\ ReadEnv(InputFileUrlName(i), value)
            /\ LET url == get_env_var_or_error(value,
                                "PreComputeAtLeastOneInputFileUrlMissing")
               IN  IF url.ok
                     THEN /\ ra' = [ra EXCEPT !.input_files = Append(@, url.val)]
                          /\ pc' = IF i + 1 <= Unwrap(ra.input_files_nb)
                                     THEN "read_args_input_file_url"
                                     ELSE "read_args_return"
                          /\ UNCHANGED <<run_result, exit_cause, steps>>
                     ELSE ra' = ra /\ RunFails(url.err)
    /\ UNCHANGED readArgsFrame

\* mutant: the file name read is not put in the configuration
PreComputeArgs_without_filename(locals) ==
    [output_dir |-> Unwrap(locals.output_dir),
     is_dataset_required |-> Unwrap(locals.is_dataset_required),
     encrypted_dataset_url |-> locals.encrypted_dataset_url,
     encrypted_dataset_base64_key |-> locals.encrypted_dataset_base64_key,
     encrypted_dataset_checksum |-> locals.encrypted_dataset_checksum,
     plain_dataset_filename |-> None,
     input_files |-> locals.input_files]

\* mutant: the checksum read is not put in the configuration
PreComputeArgs_without_checksum(locals) ==
    [output_dir |-> Unwrap(locals.output_dir),
     is_dataset_required |-> Unwrap(locals.is_dataset_required),
     encrypted_dataset_url |-> locals.encrypted_dataset_url,
     encrypted_dataset_base64_key |-> locals.encrypted_dataset_base64_key,
     encrypted_dataset_checksum |-> None,
     plain_dataset_filename |-> locals.plain_dataset_filename,
     input_files |-> locals.input_files]

\* the PreComputeArgs read_args returns, lines 108-116
PreComputeArgs(locals) ==
    [output_dir |-> Unwrap(locals.output_dir),
     is_dataset_required |-> Unwrap(locals.is_dataset_required),
     encrypted_dataset_url |-> locals.encrypted_dataset_url,
     encrypted_dataset_base64_key |-> locals.encrypted_dataset_base64_key,
     encrypted_dataset_checksum |-> locals.encrypted_dataset_checksum,
     plain_dataset_filename |-> locals.plain_dataset_filename,
     input_files |-> locals.input_files]

\* read_args returns Ok and run line 54 stores the configuration
read_args_return ==
    /\ pc = "read_args_return"
    /\ app' = [app EXCEPT !.pre_compute_args = Some(PreComputeArgs(ra))]
    /\ steps' = Finish(steps, "Ok")
    /\ pc' = AfterStep("read_args", Unwrap(ra.is_dataset_required))
    /\ UNCHANGED <<env, exit_mode, task_id, exit_cause, ra, run_result, runLocals,
                   fsVars, challengeVars, fetches>>

-----------------------------------------------------------------------------
(* PreComputeApp::run lines 55-62 *)

Args == Unwrap(app.pre_compute_args)

\* mutant: a missing output folder is reported with the generic cause
check_output_folder_result_generic_cause(pre_compute_args, ds) ==
    IF IsNone(pre_compute_args) THEN Err("PreComputeFailedUnknownIssue")
    ELSE IF PathIsDir(ds, Unwrap(pre_compute_args).output_dir) THEN Ok(Unit)
    ELSE Err("PreComputeFailedUnknownIssue")

\* mutant: Path::exists() in place of Path::is_dir()
check_output_folder_result_exists(pre_compute_args, ds) ==
    IF IsNone(pre_compute_args) THEN Err("PreComputeOutputFolderNotFound")
    ELSE IF Unwrap(pre_compute_args).output_dir \in ds \cup {OutFile} THEN Ok(Unit)
    ELSE Err("PreComputeOutputFolderNotFound")

\* check_output_folder, lines 84-103
check_output_folder_result(pre_compute_args, ds) ==
    IF IsNone(pre_compute_args) THEN Err("PreComputeOutputFolderNotFound")
    ELSE IF PathIsDir(ds, Unwrap(pre_compute_args).output_dir) THEN Ok(Unit)
    ELSE Err("PreComputeOutputFolderNotFound")

check_output_folder ==
    /\ pc = "check_output_folder"
    /\ LET r == check_output_folder_result(app.pre_compute_args, dirs)
       IN  IF r.ok
             THEN /\ steps' = Append(steps, Returned("check_output_folder", "Ok"))
                  /\ pc' = AfterStep("check_output_folder", Args.is_dataset_required)
                  /\ UNCHANGED <<run_result, exit_cause>>
             ELSE /\ steps' = Append(steps, Returned("check_output_folder", r.err))
                  /\ RunReturnsErr(r.err)
    /\ UNCHANGED <<env, exit_mode, task_id, app, ra, runLocals, fsVars,
                   challengeVars, fetches>>


\* download_encrypted_dataset, lines 164-173: the branch on the kind of URL
download_encrypted_dataset ==
    /\ pc = "download_encrypted_dataset"
    /\ steps' = Append(steps, Entered("download_encrypted_dataset"))
    /\ pc' = IF is_multi_address(Unwrap(Args.encrypted_dataset_url))
               THEN "download_from_gateway"
               ELSE "download_from_dataset_url"
    /\ gateway_idx' = 1
    /\ UNCHANGED <<env, exit_mode, task_id, exit_cause, app, ra, run_result,
                   downloaded, decrypt_calls, encrypted_content, plain_content,
                   input_idx, fsVars, challengeVars, fetches>>

downloadFrame == <<env, exit_mode, task_id, app, ra, decrypt_calls,
                   encrypted_content, plain_content, input_idx, fsVars,
                   challengeVars>>

\* mutant: the iterator is run to its end, as with filter_map(..).last()
find_map_step_to_the_end(content, idx) ==
    IF idx < Len(IPFS_GATEWAYS) THEN "next"
    ELSE IF IsSome(content) THEN "found" ELSE "exhausted"

\* mutant: only the first gateway is asked, as with map(..).next()
find_map_step_first_only(content, idx) ==
    IF IsSome(content) THEN "found" ELSE "exhausted"

\* find_map, lines 174-185: what the iterator does once the closure has
\* returned content for the gateway at idx
find_map_step(content, idx) ==
    IF IsSome(content) THEN "found"
    ELSE IF idx < Len(IPFS_GATEWAYS) THEN "next"
    ELSE "exhausted"

\* one gateway of IPFS_GATEWAYS.iter().find_map(..), lines 174-185 and 189
download_from_gateway ==
    /\ pc = "download_from_gateway"
    /\ LET full_url == IPFS_GATEWAYS[gateway_idx] \o Unwrap(Args.encrypted_dataset_url)
       IN  \E response \in DatasetResponses :
            LET content == download_from_url(full_url, response)
                step == find_map_step(content, gateway_idx)
            IN  /\ fetches' = IF SendsRequest(full_url)
                                THEN Append(fetches, Fetch(full_url, response))
                                ELSE fetches
                /\ IF step = "found"
                     THEN /\ downloaded' = content
                          /\ pc' = "verify_dataset_checksum"
                          /\ UNCHANGED <<gateway_idx, run_result, exit_cause, steps>>
                   ELSE IF step = "next"
                     THEN /\ gateway_idx' = gateway_idx + 1
                          /\ UNCHANGED <<pc, downloaded, run_result, exit_cause, steps>>
                   ELSE /\ RunFails("PreComputeDatasetDownloadFailed")
                        /\ UNCHANGED <<gateway_idx, downloaded>>
    /\ UNCHANGED downloadFrame

\* download_from_url(encrypted_dataset_url), lines 187-189
download_from_dataset_url ==
    /\ pc = "download_from_dataset_url"
    /\ LET url == Unwrap(Args.encrypted_dataset_url)
       IN  \E response \in DatasetResponses :
            LET content == download_from_url(url, response)
            IN  /\ fetches' = IF SendsRequest(url)
                                THEN Append(fetches, Fetch(url, response))
                                ELSE fetches
                /\ IF IsSome(content)
                     THEN /\ downloaded' = content
                          /\ pc' = "verify_dataset_checksum"
                          /\ UNCHANGED <<run_result, exit_cause, steps>>
                     ELSE /\ RunFails("PreComputeDatasetDownloadFailed")
                          /\ UNCHANGED downloaded
    /\ UNCHANGED <<gateway_idx>>
    /\ UNCHANGED downloadFrame

\* mutant: the checksums are not compared
ChecksumMatches_always(actual_checksum, expected_checksum) == TRUE

\* the comparison of line 198
ChecksumMatches(actual_checksum, expected_checksum) == actual_checksum = expected_checksum

\* mutant: a mismatch is returned with the cause of a failed download
verify_checksum_result_as_download(expected_checksum, content) ==
    IF IsNone(expected_checksum) THEN Err("PreComputeDatasetDownloadFailed")
    ELSE IF ~ChecksumMatches(sha256_from_bytes(content), Unwrap(expected_checksum))
        THEN Err("PreComputeDatasetDownloadFailed")
    ELSE Ok(content)

\* lines 191-206 on the downloaded bytes
verify_checksum_result(expected_checksum, content) ==
    IF IsNone(expected_checksum) THEN Err("PreComputeDatasetDownloadFailed")
    ELSE IF ~ChecksumMatches(sha256_from_bytes(content), Unwrap(expected_checksum))
        THEN Err("PreComputeInvalidDatasetChecksum")
    ELSE Ok(content)

verify_dataset_checksum ==
    /\ pc = "verify_dataset_checksum"
    /\ LET r == verify_checksum_result(Args.encrypted_dataset_checksum, Unwrap(downloaded))
       IN  IF r.ok
             THEN /\ encrypted_content' = Some(r.val)
                  /\ steps' = Finish(steps, "Ok")
                  /\ pc' = AfterStep("download_encrypted_dataset", Args.is_dataset_required)
                  /\ UNCHANGED <<run_result, exit_cause>>
             ELSE /\ RunFails(r.err)
                  /\ UNCHANGED encrypted_content
    /\ UNCHANGED <<env, exit_mode, task_id, app, ra, gateway_idx, downloaded,
                   decrypt_calls, plain_content, input_idx, fsVars, challengeVars,
                   fetches>>

\* run line 58
decrypt_dataset ==
    /\ pc = "decrypt_dataset"
    /\ decrypt_calls' = Append(decrypt_calls, Unwrap(encrypted_content))
    /\ LET r == decrypt_dataset_result(Unwrap(Args.encrypted_dataset_base64_key),
                                       Unwrap(encrypted_content))
       IN  IF r.ok
             THEN /\ plain_content' = Some(r.val)
                  /\ steps' = Append(steps, Returned("decrypt_dataset", "Ok"))
                  /\ pc' = AfterStep("decrypt_dataset", Args.is_dataset_required)
                  /\ UNCHANGED <<run_result, exit_cause>>
             ELSE /\ steps' = Append(steps, Returned("decrypt_dataset", r.err))
                  /\ RunReturnsErr(r.err)
                  /\ UNCHANGED plain_content
    /\ UNCHANGED <<env, exit_mode, task_id, app, ra, gateway_idx, downloaded,
                   encrypted_content, input_idx, fsVars, challengeVars, fetches>>

\* write_file(content, file_path): fs::write and what it leaves behind
WriteFile(path, content, ok) ==
    /\ ok => CanWrite(dirs, path)
    /\ writes' = Append(writes, [path |-> path, content |-> content, ok |-> ok])
    /\ files' = IF ok THEN (path :> content) @@ files ELSE files

\* save_plain_dataset_file, lines 282-302
save_plain_dataset_file ==
    /\ pc = "save_plain_dataset_file"
    /\ LET path == PathJoin(Args.output_dir, Unwrap(Args.plain_dataset_filename))
       IN  \E ok \in BOOLEAN :
            /\ WriteFile(path, Unwrap(plain_content), ok)
            /\ IF ok
                 THEN /\ steps' = Append(steps, Returned("save_plain_dataset_file", "Ok"))
                      /\ pc' = AfterStep("save_plain_dataset_file", Args.is_dataset_required)
                      /\ UNCHANGED <<run_result, exit_cause>>
                 ELSE /\ steps' = Append(steps, Returned("save_plain_dataset_file",
                                                "PreComputeSavingPlainDatasetFailed"))
                      /\ RunReturnsErr("PreComputeSavingPlainDatasetFailed")
    /\ UNCHANGED <<env, exit_mode, task_id, app, ra, runLocals, dirs,
                   challengeVars, fetches>>


\* download_input_files, lines 132-136: entering the loop
download_input_files ==
    /\ pc = "download_input_files"
    /\ input_idx' = 1
    /\ IF Len(Args.input_files) >= 1
         THEN /\ steps' = Append(steps, Entered("download_input_files"))
              /\ pc' = "download_file"
         ELSE /\ steps' = Append(steps, Returned("download_input_files", "Ok"))
              /\ pc' = AfterStep("download_input_files", Args.is_dataset_required)
    /\ UNCHANGED <<env, exit_mode, task_id, exit_cause, app, ra, run_result,
                   gateway_idx, downloaded, decrypt_calls, encrypted_content,
                   plain_content, fsVars, challengeVars, fetches>>

\* mutant: a URL that fails is skipped and the loop goes on
for_url_step_skips_failures(written, idx, n) ==
    IF idx < n THEN "next"
    ELSE IF written THEN "return_ok" ELSE "return_err"

\* mutant: the loop returns Ok after the first URL
for_url_step_first_only(written, idx, n) ==
    IF ~written THEN "return_err" ELSE "return_ok"

\* `for url in &args.input_files`, lines 136-144: what the loop does once
\* download_file has returned for the URL at idx, of n URLs
for_url_step(written, idx, n) ==
    IF ~written THEN "return_err"
    ELSE IF idx < n THEN "next"
    ELSE "return_ok"

\* One iteration of the loop: download_file(url, output_dir, sha256(url)),
\* file_utils.rs lines 81-131, and lines 140-142 of download_input_files.
download_file ==
    /\ pc = "download_file"
    /\ LET url == Args.input_files[input_idx]
           parent_dir == Args.output_dir
           filename == sha256(url)
       IN  \E response \in InputResponses, created \in BOOLEAN, ok \in BOOLEAN :
            LET invalid == url = <<>> \/ parent_dir = <<>> \/ filename = <<>>
                bytes == IF invalid THEN None ELSE download_from_url(url, response)
                parent_existed == PathExists(dirs, files, parent_dir)
                create_failed == ~parent_existed /\ ~created
                dirs_then == IF parent_existed \/ ~created THEN dirs
                             ELSE dirs \cup {parent_dir}
                file_path == PathJoin(parent_dir, filename)
                writing == IsSome(bytes) /\ ~create_failed
                written == writing /\ ok
                step == for_url_step(written, input_idx, Len(Args.input_files))
            IN  /\ ok => CanWrite(dirs_then, file_path)
                /\ fetches' = IF ~invalid /\ SendsRequest(url)
                                THEN Append(fetches, Fetch(url, response)) ELSE fetches
                /\ writes' = IF writing
                               THEN Append(writes, [path |-> file_path,
                                                    content |-> Unwrap(bytes), ok |-> ok])
                               ELSE writes
                /\ files' = IF written THEN (file_path :> Unwrap(bytes)) @@ files
                                       ELSE files
                \* a directory created for a write that failed is removed again
                /\ dirs' = IF written THEN dirs_then ELSE dirs
                /\ IF step = "next"
                     THEN /\ input_idx' = input_idx + 1
                          /\ UNCHANGED <<pc, steps, run_result, exit_cause>>
                   ELSE IF step = "return_ok"
                     THEN /\ input_idx' = input_idx + 1
                          /\ steps' = Finish(steps, "Ok")
                          /\ pc' = AfterStep("download_input_files",
                                             Args.is_dataset_required)
                          /\ UNCHANGED <<run_result, exit_cause>>
                   ELSE /\ RunFails("PreComputeInputFileDownloadFailed")
                        /\ UNCHANGED input_idx
    /\ UNCHANGED <<env, exit_mode, task_id, app, ra, gateway_idx, downloaded,
                   decrypt_calls, encrypted_content, plain_content, challengeVars>>

\* run returns Ok(()), line 62; start_with_app returns Success, lines 57-59
run_returns_ok ==
    /\ pc = "run_returns_ok"
    /\ run_result' = Some(Ok(Unit))
    /\ exit_mode' = Some("Success")
    /\ pc' = "done"
    /\ UNCHANGED <<env, task_id, exit_cause, app, ra, runLocals, fsVars,
                   challengeVars, steps, fetches>>

-----------------------------------------------------------------------------
(* get_challenge and sign_enclave_challenge, compute/signer.rs *)

\* PrivateKeySigner::from_str: the text is hexadecimal, with or without 0x,
\* of the length of a key (the keys of the model are one byte long), and the
\* key is not zero; the signer is the key
parse_private_key(text) ==
    LET digits == clean_hex_prefix(text)
        key == hex_string_to_byte_array(text)
    IN  IF /\ Len(digits) = Len(clean_hex_prefix(ValidPrivateKey))
           /\ ~key.panic
           /\ \E i \in 1..Len(key.bytes) : key.bytes[i] # 0
            THEN Ok(key.bytes)
            ELSE Err("LocalSignerError")

\* mutant: the signature carries a nonce that differs from run to run
sign_enclave_challenge_with_nonce(message_hash, enclave_challenge_private_key) ==
    LET signer == parse_private_key(enclave_challenge_private_key)
    IN  IF ~signer.ok THEN Err("PreComputeWorkerAddressMissing")
        ELSE Ok([signer |-> signer.val,
                 message |-> hex_string_to_byte_array(message_hash).bytes
                                \o <<Len(steps)>>])

\* sign_enclave_challenge, lines 40-53; the signature is a function of the
\* signer and of the signed bytes
sign_enclave_challenge(message_hash, enclave_challenge_private_key) ==
    LET signer == parse_private_key(enclave_challenge_private_key)
    IN  IF ~signer.ok THEN Err("PreComputeWorkerAddressMissing")
        ELSE Ok([signer |-> signer.val,
                 message |-> hex_string_to_byte_array(message_hash).bytes])

challengeFrame == <<task_id, exit_cause, app, ra, run_result, runLocals, fsVars,
                    client, posts, steps, fetches>>

\* mutant: the failure is recorded and start_with_app goes on to report
ChallengeFails_then_reports(cause) ==
    /\ challenge' = Some(Err(cause))
    /\ exit_mode' = exit_mode
    /\ pc' = "from_env"

\* mutant: the failure is not returned and get_challenge goes on to sign
ChallengeFails_goes_on(cause) ==
    /\ challenge' = challenge
    /\ exit_mode' = exit_mode
    /\ pc' = "get_challenge_sign"

\* get_challenge returns Err: start_with_app returns UnreportedFailure, lines 68-71
ChallengeFails(cause) ==
    /\ challenge' = Some(Err(cause))
    /\ exit_mode' = Some("UnreportedFailure")
    /\ pc' = "done"

\* start_with_app line 66, get_challenge lines 97-100
get_challenge ==
    /\ pc = "get_challenge"
    /\ \E value \in WorkerAddressValues :
        /\ ReadEnv(EnvName("SignWorkerAddress"), value)
        /\ LET r == get_env_var_or_error(value, "PreComputeWorkerAddressMissing")
           IN  IF r.ok
                 THEN /\ worker_address' = Some(r.val)
                      /\ pc' = "get_challenge_private_key"
                      /\ UNCHANGED <<challenge, exit_mode>>
                 ELSE /\ ChallengeFails(r.err)
                      /\ UNCHANGED worker_address
    /\ UNCHANGED challenge_key
    /\ UNCHANGED challengeFrame

\* get_challenge lines 102-105
get_challenge_private_key ==
    /\ pc = "get_challenge_private_key"
    /\ \E value \in ChallengeKeyValues :
        /\ ReadEnv(EnvName("SignTeeChallengePrivateKey"), value)
        /\ LET r == get_env_var_or_error(value, "PreComputeTeeChallengePrivateKeyMissing")
           IN  IF r.ok
                 THEN /\ challenge_key' = Some(r.val)
                      /\ pc' = "get_challenge_sign"
                      /\ UNCHANGED <<challenge, exit_mode>>
                 ELSE /\ ChallengeFails(r.err)
                      /\ UNCHANGED challenge_key
    /\ UNCHANGED worker_address
    /\ UNCHANGED challengeFrame

\* get_challenge lines 107-108: a panic of concatenate_and_hash unwinds
\* through start_with_app and main, and the process aborts
get_challenge_sign ==
    /\ pc = "get_challenge_sign"
    /\ LET message_hash == concatenate_and_hash(<<Unwrap(task_id), Unwrap(worker_address)>>)
           r == sign_enclave_challenge(message_hash.val, Unwrap(challenge_key))
       IN  IF message_hash.panic
             THEN /\ pc' = "panicked"
                  /\ UNCHANGED <<challenge, exit_mode>>
           ELSE IF r.ok
             THEN /\ challenge' = Some(r)
                  /\ pc' = "from_env"
                  /\ UNCHANGED exit_mode
           ELSE ChallengeFails(r.err)
    /\ UNCHANGED <<env, worker_address, challenge_key>>
    /\ UNCHANGED challengeFrame


-----------------------------------------------------------------------------
(* WorkerApiClient, api/worker_api.rs *)

DEFAULT_WORKER_HOST == <<"w", "o", "r", "k", "e", "r", ":", "1", "3", "1", "0", "0">>

\* mutant: the variable is not looked at and the default host is used
BaseUrl_always_default(host_value) == Http \o DEFAULT_WORKER_HOST

\* from_env, lines 85-94
BaseUrl(host_value) ==
    LET worker_host == get_env_var_or_error(host_value, "PreComputeWorkerAddressMissing")
    IN  Http \o (IF worker_host.ok THEN worker_host.val ELSE DEFAULT_WORKER_HOST)

\* format!("{}/compute/pre/{chain_task_id}/exit", self.base_url), line 141
ExitUrl(base_url, chain_task_id) ==
    base_url \o <<"/", "c", "o", "m", "p", "u", "t", "e", "/", "p", "r", "e", "/">>
             \o chain_task_id \o <<"/", "e", "x", "i", "t">>

\* what the POST can come back with
PostResponses == {"2xx", "non_2xx", "transport_error"}

\* mutant: the Err(err) arm of send() is taken for success
send_exit_cause_result_ignoring_transport(response) ==
    IF response \in {"2xx", "transport_error"} THEN Ok(Unit)
    ELSE Err("PreComputeFailedUnknownIssue")

\* mutant: status.is_success() is not looked at
send_exit_cause_result_ignoring_status(response) ==
    IF response \in {"2xx", "non_2xx"} THEN Ok(Unit)
    ELSE Err("PreComputeFailedUnknownIssue")

\* mutant: a transport failure is returned with a cause of its own
send_exit_cause_result_telling_apart(response) ==
    IF response = "2xx" THEN Ok(Unit)
    ELSE IF response = "non_2xx" THEN Err("PreComputeFailedUnknownIssue")
    ELSE Err("PreComputeWorkerAddressMissing")

\* send_exit_cause_for_pre_compute_stage, lines 142-163
send_exit_cause_result(response) ==
    IF response = "2xx" THEN Ok(Unit) ELSE Err("PreComputeFailedUnknownIssue")

\* mutant: the Ok arm returns the wrong exit mode
ExitModeOfReport_success(result) ==
    IF result.ok THEN "Success" ELSE "UnreportedFailure"

\* start_with_app lines 83-87
ExitModeOfReport(result) ==
    IF result.ok THEN "ReportedFailure" ELSE "UnreportedFailure"

\* WorkerApiClient::from_env(), start_with_app line 78
from_env ==
    /\ pc = "from_env"
    /\ \E value \in WorkerHostValues :
        /\ ReadEnv(EnvName("WorkerHostEnvVar"), value)
        /\ client' = Some(BaseUrl(value))
    /\ pc' = "send_exit_cause"
    /\ UNCHANGED <<exit_mode, task_id, exit_cause, app, ra, run_result, runLocals,
                   fsVars, worker_address, challenge_key, challenge, posts, steps,
                   fetches>>

\* send_exit_cause_for_pre_compute_stage(&authorization, &chain_task_id,
\* &exit_message) with exit_message = ExitMessage {cause: &exit_cause}, and
\* the exit mode start_with_app returns, lines 74-88
send_exit_cause ==
    /\ pc = "send_exit_cause"
    /\ \E response \in PostResponses :
        /\ posts' = Append(posts, [url |-> ExitUrl(Unwrap(client), Unwrap(task_id)),
                                   authorization |-> Unwrap(challenge).val,
                                   cause |-> exit_cause,
                                   response |-> response])
        /\ exit_mode' = Some(ExitModeOfReport(send_exit_cause_result(response)))
    /\ pc' = "done"
    /\ UNCHANGED <<env, task_id, exit_cause, app, ra, run_result, runLocals, fsVars,
                   worker_address, challenge_key, challenge, client, steps, fetches>>

-----------------------------------------------------------------------------

Next ==
    \/ start_with_app
    \/ run
    \/ read_args_output_dir
    \/ read_args_is_dataset_required
    \/ read_args_dataset_url
    \/ read_args_dataset_key
    \/ read_args_dataset_checksum
    \/ read_args_dataset_filename
    \/ read_args_input_files_number
    \/ read_args_input_file_url
    \/ read_args_return
    \/ check_output_folder
    \/ download_encrypted_dataset
    \/ download_from_gateway
    \/ download_from_dataset_url
    \/ verify_dataset_checksum
    \/ decrypt_dataset
    \/ save_plain_dataset_file
    \/ download_input_files
    \/ download_file
    \/ run_returns_ok
    \/ get_challenge
    \/ get_challenge_private_key
    \/ get_challenge_sign
    \/ from_env
    \/ send_exit_cause

Spec == Init /\ [][Next]_vars

\* The steps are sequential and blocking; a step that is enabled is taken.
FairSpec == Spec /\ WF_vars(Next)


-----------------------------------------------------------------------------
(* Vocabulary of the properties *)

RunErr == IsSome(run_result) /\ ~Unwrap(run_result).ok
RunCause == Unwrap(run_result).err
ChallengeOk == IsSome(challenge) /\ Unwrap(challenge).ok
ChallengeErr == IsSome(challenge) /\ ~Unwrap(challenge).ok
WasRead(var) == EnvName(var) \in DOMAIN env
Exited(mode) == exit_mode = Some(mode)

IsPrefix(s, t) == Len(s) <= Len(t) /\ SubSeq(t, 1, Len(s)) = s
StepNames == [i \in 1..Len(steps) |-> steps[i].step]

-----------------------------------------------------------------------------
(* Run controller *)

\* C1: every report POST carries, as its cause, the cause that run returned
\* in this run.
C1_ReportCarriesRunCause ==
    \A i \in 1..Len(posts) : RunErr /\ posts[i].cause = RunCause

\* C2: with IEXEC_TASK_ID absent or empty, start_with_app returns
\* InitializationFailure (exit code 3) and run, get_challenge and the network
\* are never used.
C2_TaskIdMissing ==
    (WasRead("IexecTaskId") /\ env[EnvName("IexecTaskId")] \in Absent)
        => /\ pc = "done"
           /\ Exited("InitializationFailure")
           /\ ExitCode(Unwrap(exit_mode)) = 3
           /\ steps = <<>> /\ run_result = None /\ app.chain_task_id = None
           /\ challenge = None /\ ~WasRead("SignWorkerAddress")
           /\ client = None
           /\ fetches = <<>> /\ posts = <<>>

C2_Witness ==
    /\ WasRead("IexecTaskId") /\ env[EnvName("IexecTaskId")] = Some(<<>>)
    /\ Exited("InitializationFailure")

\* C3: start_with_app returns Success exactly when the task id was present and
\* run returned Ok; then neither the signer nor the reporting client was
\* used, and no step of the run returned a cause.
C3_SuccessIffRunOk ==
    /\ Exited("Success") <=> (IsSome(task_id) /\ IsSome(run_result) /\ Unwrap(run_result).ok)
    /\ Exited("Success") =>
        /\ ExitCode(Unwrap(exit_mode)) = 0
        /\ challenge = None /\ ~WasRead("SignWorkerAddress")
        /\ ~WasRead("SignTeeChallengePrivateKey")
        /\ client = None /\ ~WasRead("WorkerHostEnvVar") /\ posts = <<>>
        /\ \A i \in 1..Len(steps) : steps[i].result = "Ok"
        /\ \A i \in 1..Len(writes) : writes[i].ok
    /\ (\E i \in 1..Len(steps) : steps[i].result \in ReplicateStatusCause)
        => ~Exited("Success")

C3_Witness ==
    /\ Exited("Success")
    /\ Args.is_dataset_required
    /\ Len(Args.input_files) >= 1

\* C4: when run returned an error and get_challenge gave no signature (worker
\* address or challenge private key absent, empty or unusable), the run ends
\* with start_with_app returning UnreportedFailure (exit code 2) and no POST.
C4_SignerFailureUnreported ==
    (RunErr /\ pc \in {"done", "panicked"} /\ ~ChallengeOk)
        => /\ Exited("UnreportedFailure")
           /\ ExitCode(Unwrap(exit_mode)) = 2
           /\ client = None /\ posts = <<>>

\* C5: when run returned an error, get_challenge succeeded and the POST got a
\* response outside 2xx or failed in transport, start_with_app returns
\* UnreportedFailure (exit code 2).
C5_ReportFailure ==
    \A i \in 1..Len(posts) :
        posts[i].response # "2xx"
            => /\ RunErr /\ ChallengeOk
               /\ Exited("UnreportedFailure")
               /\ ExitCode(Unwrap(exit_mode)) = 2

C5_Witness ==
    /\ Len(posts) = 1
    /\ posts[1].response = "transport_error"
    /\ Exited("UnreportedFailure")

\* C6: start_with_app returns ReportedFailure (exit code 1) exactly when run
\* returned an error, get_challenge succeeded and the POST got a 2xx response.
C6_ReportedIffPosted ==
    /\ Exited("ReportedFailure")
        <=> (RunErr /\ ChallengeOk /\ Len(posts) = 1 /\ posts[1].response = "2xx")
    /\ Exited("ReportedFailure") => ExitCode(Unwrap(exit_mode)) = 1

C6_Witness ==
    /\ Exited("ReportedFailure")
    /\ posts[1].response = "2xx"

\* C7: every run ends by returning one of the four exit modes: a run that
\* can take no further step has returned an exit mode, and the signing path
\* never aborts it.
C7_RunReturnsExitMode ==
    (pc \in {"done", "panicked"})
        => (IsSome(exit_mode) /\ Unwrap(exit_mode) \in ExitMode)


C7_FailingRun ==
    /\ pc = "panicked"
    /\ worker_address = Some(WorkerAddressNotHex)

-----------------------------------------------------------------------------
(* Orchestrator *)

RunOrder(is_dataset_required) ==
    IF is_dataset_required
        THEN <<"read_args", "check_output_folder", "download_encrypted_dataset",
               "decrypt_dataset", "save_plain_dataset_file", "download_input_files">>
        ELSE <<"read_args", "check_output_folder", "download_input_files">>

ConfigurationCauses ==
    {"PreComputeOutputPathMissing", "PreComputeIsDatasetRequiredMissing",
     "PreComputeDatasetUrlMissing", "PreComputeDatasetKeyMissing",
     "PreComputeDatasetChecksumMissing", "PreComputeDatasetFilenameMissing",
     "PreComputeInputFilesNumberMissing", "PreComputeAtLeastOneInputFileUrlMissing"}

CausesOfStep(step) ==
    CASE step = "read_args" -> ConfigurationCauses
      [] step = "check_output_folder" -> {"PreComputeOutputFolderNotFound"}
      [] step = "download_encrypted_dataset" ->
            {"PreComputeDatasetDownloadFailed", "PreComputeInvalidDatasetChecksum"}
      [] step = "decrypt_dataset" -> {"PreComputeDatasetDecryptionFailed"}
      [] step = "save_plain_dataset_file" -> {"PreComputeSavingPlainDatasetFailed"}
      [] step = "download_input_files" -> {"PreComputeInputFileDownloadFailed"}

\* what a run has done to the outside and to its own progress
RunEffects == <<steps, fetches, writes, files, dirs, decrypt_calls>>

C8_OrderOfSteps ==
    \* the steps entered so far are an initial part of the fixed order
    /\ IF IsSome(app.pre_compute_args)
         THEN IsPrefix(StepNames, RunOrder(Args.is_dataset_required))
         ELSE IsPrefix(StepNames, <<"read_args">>)
    \* only the last step can be running or have failed
    /\ \A i \in 1..(Len(steps) - 1) : steps[i].result = "Ok"
    \* a failed run returns the cause of the step that failed, and that step
    \* is the last one entered
    /\ RunErr => /\ steps[Len(steps)].result = RunCause
                 /\ RunCause \in CausesOfStep(steps[Len(steps)].step)
    /\ (steps # <<>> /\ steps[Len(steps)].result \notin {"Ok", "running"}) => RunErr
    \* a run that returns Ok went through every step
    /\ (IsSome(run_result) /\ Unwrap(run_result).ok)
        => StepNames = RunOrder(Args.is_dataset_required)

\* C8: run executes its steps in the fixed order, stops at the first step
\* that fails, returns that step's cause unchanged, executes no step twice and
\* does nothing (no step, fetch, decryption or write) after a failed step.
C8_FixedOrderFailFast ==
    /\ []C8_OrderOfSteps
    /\ [][RunErr => UNCHANGED RunEffects]_vars

C8_Witness ==
    /\ pc = "done"
    /\ RunErr /\ RunCause = "PreComputeDatasetDecryptionFailed"
    /\ Len(fetches) = 2

-----------------------------------------------------------------------------
(* check_output_folder *)

C9_CheckResult ==
    \* on no configuration and on the configuration of the run
    /\ \A pre_compute_args \in {None, app.pre_compute_args} :
        LET r == check_output_folder_result(pre_compute_args, dirs)
        IN  /\ r.ok <=> (IsSome(pre_compute_args)
                            /\ Unwrap(pre_compute_args).output_dir \in dirs)
            /\ ~r.ok => r.err = "PreComputeOutputFolderNotFound"
    \* in run, the step returns what the check gives on run's configuration
    /\ \A i \in 1..Len(steps) :
        (steps[i].step = "check_output_folder")
            => steps[i].result = IF Args.output_dir \in dirs
                                   THEN "Ok" ELSE "PreComputeOutputFolderNotFound"
    \* no write is attempted before the check has returned Ok
    /\ writes # <<>> => (Len(steps) >= 2 /\ steps[2] = Returned("check_output_folder", "Ok"))

\* C9: check_output_folder returns Ok exactly when a configuration has been
\* read and its output_dir is an existing directory, and
\* PreComputeOutputFolderNotFound in every other case; it creates nothing,
\* and run attempts no write before it has returned Ok.
C9_OutputFolderCheck ==
    /\ []C9_CheckResult
    /\ [][pc = "check_output_folder" => UNCHANGED <<dirs, files, writes>>]_vars

C9_Witness ==
    /\ Len(steps) = 2
    /\ steps[2] = Returned("check_output_folder", "PreComputeOutputFolderNotFound")
    /\ Args.output_dir = OutFile

-----------------------------------------------------------------------------
(* Dataset pipeline *)

\* the digest a configured checksum denotes: without 0x, in lower case
DigestDenoted(checksum) == to_lowercase(clean_hex_prefix(checksum))

Mismatch(checksum, bytes) == DigestDenoted(checksum) # DigestOfBytes(bytes)

\* C10: downloaded bytes whose SHA-256 is not the configured checksum make
\* the dataset pipeline return PreComputeInvalidDatasetChecksum, and
\* decrypt_dataset is never called on them.
C10_MismatchNeverDecrypted ==
    /\ (IsSome(downloaded) /\ pc # "verify_dataset_checksum"
            /\ Mismatch(Unwrap(Args.encrypted_dataset_checksum), Unwrap(downloaded)))
        => /\ RunErr /\ RunCause = "PreComputeInvalidDatasetChecksum"
           /\ steps[Len(steps)] = Returned("download_encrypted_dataset",
                                           "PreComputeInvalidDatasetChecksum")
           /\ encrypted_content = None /\ plain_content = None
           /\ decrypt_calls = <<>>
    /\ \A i \in 1..Len(decrypt_calls) :
        ~Mismatch(Unwrap(Args.encrypted_dataset_checksum), decrypt_calls[i])
    \* whatever was downloaded, when the checksum is about to be verified
    /\ pc = "verify_dataset_checksum" =>
        \A response \in DatasetResponses \ {None} :
            Mismatch(Unwrap(Args.encrypted_dataset_checksum), Unwrap(response))
                => verify_checksum_result(Args.encrypted_dataset_checksum, Unwrap(response))
                    = Err("PreComputeInvalidDatasetChecksum")

C10_Witness ==
    /\ RunErr /\ RunCause = "PreComputeInvalidDatasetChecksum"
    /\ downloaded = Some(BadPaddingContent)
    /\ Len(fetches) = 3

\* C11: the checksum check accepts the downloaded bytes for every configured
\* checksum that denotes their digest, in upper or lower case, with or
\* without 0x, and answers invalid-checksum only when the digests differ.
C11_ChecksumCompareIgnoresCaseAndPrefix ==
    (IsSome(downloaded) /\ pc # "verify_dataset_checksum") =>
        LET configured == Unwrap(Args.encrypted_dataset_checksum)
        IN  /\ ~Mismatch(configured, Unwrap(downloaded))
                => /\ encrypted_content = downloaded
                   /\ steps[3] = Returned("download_encrypted_dataset", "Ok")
            /\ (RunErr /\ RunCause = "PreComputeInvalidDatasetChecksum")
                => Mismatch(configured, Unwrap(downloaded))

-----------------------------------------------------------------------------
(* Runs without a dataset *)

DatasetPositions ==
    {"download_encrypted_dataset", "download_from_gateway", "download_from_dataset_url",
     "verify_dataset_checksum", "decrypt_dataset", "save_plain_dataset_file"}

DatasetVariables ==
    {"IexecDatasetUrl", "IexecDatasetKey", "IexecDatasetChecksum", "IexecDatasetFilename"}

Range(seq) == {seq[i] : i \in 1..Len(seq)}

\* the flag has been parsed and is false
NoDatasetRequired == IsSome(ra.is_dataset_required) /\ ~Unwrap(ra.is_dataset_required)

\* C12: when is_dataset_required is false, run downloads, verifies, decrypts
\* and saves no dataset, reads no dataset variable, and its result is that of
\* read_args, check_output_folder and download_input_files alone.
C12_NoDatasetNoPipeline ==
    NoDatasetRequired =>
        /\ pc \notin DatasetPositions
        /\ downloaded = None /\ encrypted_content = None /\ plain_content = None
        /\ decrypt_calls = <<>>
        /\ \A var \in DatasetVariables : ~WasRead(var)
        /\ IsPrefix(StepNames, RunOrder(FALSE))
        /\ \A i \in 1..Len(fetches) : fetches[i].url \in Range(ra.input_files)
        /\ \A i \in 1..Len(writes) :
            \E url \in Range(ra.input_files) :
                writes[i].path = PathJoin(Unwrap(ra.output_dir), sha256(url))
        /\ RunErr => RunCause \in
            {"PreComputeInputFilesNumberMissing", "PreComputeAtLeastOneInputFileUrlMissing",
             "PreComputeOutputFolderNotFound", "PreComputeInputFileDownloadFailed"}
        \* the three steps returned Ok: so does run
        /\ (pc = "done" /\ Len(steps) = 3 /\ steps[3].result = "Ok")
            => (IsSome(run_result) /\ Unwrap(run_result).ok)

C12_Witness ==
    /\ NoDatasetRequired
    /\ pc = "done" /\ Exited("Success")
    /\ Len(writes) = 1

-----------------------------------------------------------------------------
(* Gateway fallback *)

\* the dataset URL of the run is a multiaddress
UsesGateways ==
    /\ IsSome(app.pre_compute_args)
    /\ Args.is_dataset_required
    /\ is_multi_address(Unwrap(Args.encrypted_dataset_url))

GatewayUrl(i) == IPFS_GATEWAYS[i] \o Unwrap(Args.encrypted_dataset_url)

\* the requests sent to gateways, in the order they were sent
GatewayFetches ==
    SelectSeq(fetches, LAMBDA f : \E i \in 1..Len(IPFS_GATEWAYS) : f.url = GatewayUrl(i))

\* C13: for a multiaddress dataset URL the gateways are asked in list order,
\* each at most once; the bytes kept are the response of the first gateway
\* that succeeds, every gateway before it failed, none after it is asked.
C13_FirstGatewayThatSucceeds ==
    UsesGateways =>
        LET g == GatewayFetches
            k == Len(g)
        IN  /\ k <= Len(IPFS_GATEWAYS)
            /\ \A i \in 1..k : g[i].url = GatewayUrl(i)
            /\ \A i \in 1..(k - 1) : g[i].response = None
            /\ IsSome(downloaded) => (k >= 1 /\ downloaded = g[k].response)
            /\ (k >= 1 /\ IsSome(g[k].response))
                => (downloaded = g[k].response /\ pc # "download_from_gateway")

C13_Witness ==
    /\ UsesGateways
    /\ pc = "done"
    /\ Len(GatewayFetches) = 2
    /\ GatewayFetches[1] = Fetch(GatewayUrl(1), None)
    /\ GatewayFetches[2] = Fetch(GatewayUrl(2), Some(ValidCiphertext))
    /\ downloaded = Some(ValidCiphertext)

AllGatewaysFailed ==
    /\ Len(GatewayFetches) = Len(IPFS_GATEWAYS)
    /\ \A i \in 1..Len(GatewayFetches) : GatewayFetches[i].response = None

\* C14: for a multiaddress dataset URL whose gateways all fail, each gateway
\* is asked exactly once, in list order, then download_encrypted_dataset
\* returns PreComputeDatasetDownloadFailed; the fetch attempts number as many
\* as the list has gateways.
C14_AllGatewaysFail ==
    UsesGateways =>
        /\ AllGatewaysFailed
            => /\ RunErr /\ RunCause = "PreComputeDatasetDownloadFailed"
               /\ steps[Len(steps)] = Returned("download_encrypted_dataset",
                                               "PreComputeDatasetDownloadFailed")
               /\ downloaded = None
               /\ Len(fetches) = Len(IPFS_GATEWAYS)
               /\ \A i \in 1..Len(fetches) : fetches[i].url = GatewayUrl(i)
        /\ (RunErr /\ RunCause = "PreComputeDatasetDownloadFailed") => AllGatewaysFailed

C14_Witness ==
    /\ UsesGateways
    /\ AllGatewaysFailed
    /\ pc = "done"

-----------------------------------------------------------------------------
(* download_input_files called on an application built with its
   configuration, as the tests of pre_compute_app.rs do (get_pre_compute_app,
   lines 327-344): the lists of URLs are not bounded by the environment *)

SeqsUpTo(S, n) == UNION {[1..k -> S] : k \in 0..n}

InputUrls == {InputUrlA, InputUrlB, InputUrlC, InputUrlIpfs}

get_pre_compute_app(chain_task_id, urls, output_dir) ==
    [chain_task_id |-> Some(chain_task_id),
     pre_compute_args |-> Some([output_dir |-> output_dir,
                                is_dataset_required |-> TRUE,
                                encrypted_dataset_url |-> Some(HttpDatasetUrl),
                                encrypted_dataset_base64_key |-> Some(DatasetKeyBase64),
                                encrypted_dataset_checksum |->
                                    Some(sha256_from_bytes(ValidCiphertext)),
                                plain_dataset_filename |-> Some(PlainDataFile),
                                input_files |-> urls])]

InputFilesInit ==
    /\ pc = "download_input_files"
    /\ \E urls \in SeqsUpTo(InputUrls, MaxUrls), output_dir \in {OutDir, OutMissing} :
        app = get_pre_compute_app(TaskIdHex, urls, output_dir)
    /\ env = <<>>
    /\ exit_mode = None
    /\ task_id = Some(TaskIdHex)
    /\ exit_cause = "PreComputeFailedUnknownIssue"
    /\ ra = NoArgs
    /\ run_result = None
    /\ gateway_idx = 1
    /\ downloaded = None
    /\ decrypt_calls = <<>>
    /\ encrypted_content = None
    /\ plain_content = None
    /\ input_idx = 1
    /\ dirs = {Slash, OutDir}
    /\ files = (OutFile :> <<>>)
    /\ worker_address = None
    /\ challenge_key = None
    /\ challenge = None
    /\ client = None
    /\ steps = <<>>
    /\ fetches = <<>>
    /\ writes = <<>>
    /\ posts = <<>>

InputFilesNext == download_input_files \/ download_file

InputFilesSpec == InputFilesInit /\ [][InputFilesNext]_vars

\* download_input_files has returned
InputFilesReturned == pc \in {"run_returns_ok", "get_challenge"}
InputFilesFailed == pc = "get_challenge"

InputFilePath(url) == PathJoin(Args.output_dir, sha256(url))

\* C15: the input URLs are processed in declared order and the first URL that
\* fails ends the step with PreComputeInputFileDownloadFailed: the files of
\* the URLs before it stay on disk, no later URL is fetched or written.
C15_StopsAtFirstFailure ==
    LET urls == Args.input_files
    IN  /\ input_idx \in 1..(Len(urls) + 1)
        \* the URLs before input_idx succeeded: their files are on disk
        /\ \A i \in 1..(input_idx - 1) : InputFilePath(urls[i]) \in DOMAIN files
        \* fetches and writes follow the declared order, up to input_idx
        /\ Len(fetches) \in {input_idx - 1, input_idx} \cap 0..Len(urls)
        /\ \A k \in 1..Len(fetches) : fetches[k].url = urls[k]
        /\ Len(writes) <= Len(fetches)
        /\ \A k \in 1..Len(writes) : writes[k].path = InputFilePath(urls[k])
        /\ InputFilesFailed
            => /\ run_result = Some(Err("PreComputeInputFileDownloadFailed"))
               /\ input_idx <= Len(urls)
               \* the URL at input_idx is the first that failed
               /\ \A k \in 1..Len(fetches) :
                    IsNone(fetches[k].response) => k = input_idx
               /\ \A k \in 1..Len(writes) : ~writes[k].ok => k = input_idx
               \* no file for the URLs from input_idx on, unless an earlier
               \* URL is the same
               /\ \A i \in input_idx..Len(urls) :
                    (\A m \in 1..(input_idx - 1) : urls[m] # urls[i])
                        => InputFilePath(urls[i]) \notin DOMAIN files
        /\ (InputFilesReturned /\ ~InputFilesFailed)
            => (input_idx = Len(urls) + 1 /\ run_result = None)

C15_Witness ==
    /\ Args.input_files = <<InputUrlA, InputUrlB, InputUrlC>>
    /\ InputFilesFailed
    /\ fetches = <<Fetch(InputUrlA, Some(InputContent)), Fetch(InputUrlB, None)>>
    /\ InputFilePath(InputUrlA) \in DOMAIN files
    /\ InputFilePath(InputUrlC) \notin DOMAIN files

-----------------------------------------------------------------------------
(* Input files of a run without a dataset *)

\* the files the run has written
Produced == {writes[k].path : k \in {j \in 1..Len(writes) : writes[j].ok}}

\* a finished run on a well-formed configuration without a dataset whose
\* input URLs are all valid: each is a URL, was answered with content, and
\* every write succeeded
RunOnValidInputUrls ==
    /\ pc = "done"
    /\ IsSome(app.pre_compute_args) /\ ~Args.is_dataset_required
    /\ PathIsDir(dirs, Args.output_dir)
    /\ \A i \in 1..Len(Args.input_files) : UrlParses(Args.input_files[i])
    /\ \A k \in 1..Len(fetches) : IsSome(fetches[k].response)
    /\ \A k \in 1..Len(writes) : writes[k].ok

OneFilePerUrl ==
    /\ IsSome(run_result) /\ Unwrap(run_result).ok /\ Exited("Success")
    /\ Len(fetches) = Len(Args.input_files)
    /\ \A i \in 1..Len(Args.input_files) : fetches[i].url = Args.input_files[i]
    /\ Produced = {InputFilePath(url) : url \in Range(Args.input_files)}
    /\ \A path \in Produced : ParentDir(path) = Args.output_dir
    /\ \A i \in 1..Len(Args.input_files) :
        files[InputFilePath(Args.input_files[i])] = Unwrap(fetches[i].response)

\* C16 as stated: a run without a dataset on N valid input URLs returns
\* success and produces exactly N files under output_dir, one per URL, named
\* sha256(url).
C16_ExactlyNFiles ==
    RunOnValidInputUrls
        => (OneFilePerUrl /\ Cardinality(Produced) = Len(Args.input_files))

\* C16 amended: such a run returns success and produces one file per distinct
\* URL under output_dir, named sha256(url): N files when the N URLs are
\* pairwise distinct, fewer when a URL is listed more than once.
C16_OneFilePerDistinctUrl ==
    RunOnValidInputUrls
        => /\ OneFilePerUrl
           /\ Cardinality(Produced) = Cardinality(Range(Args.input_files))
           /\ Cardinality(Produced) <= Len(Args.input_files)

C16_Witness ==
    /\ RunOnValidInputUrls
    /\ Args.input_files = <<InputUrlA, InputUrlB>>
    /\ Cardinality(Produced) = 2

-----------------------------------------------------------------------------
(* Names of the input files *)

\* the writes of download_input_files: in a run with a dataset they come
\* after the write of the plain dataset
InputWrites ==
    IF IsSome(app.pre_compute_args) /\ Args.is_dataset_required /\ writes # <<>>
        THEN Tail(writes) ELSE writes

FileName(path) == SubSeq(path, LastSlash(path) + 1, Len(path))

\* C17 as stated: the k-th input file is written at {output_dir}/{name} where
\* name is exactly the lowercase hexadecimal SHA-256 digest of the k-th URL,
\* with no prefix and no extension.
C17_NameIsBareDigest ==
    \A k \in 1..Len(InputWrites) :
        /\ ParentDir(InputWrites[k].path) = Args.output_dir
        /\ FileName(InputWrites[k].path) = DigestOfString(Args.input_files[k])

\* C17 amended: the name is "0x" followed by the lowercase hexadecimal
\* SHA-256 digest of the URL, with no extension.
C17_NameIsPrefixedDigest ==
    \A k \in 1..Len(InputWrites) :
        LET name == FileName(InputWrites[k].path)
            digest == DigestOfString(Args.input_files[k])
        IN  /\ InputWrites[k].path = Args.output_dir \o Slash \o name
            /\ name = <<"0", "x">> \o digest
            /\ digest = to_lowercase(digest)
            /\ \A i \in 1..Len(name) : name[i] # "."

C17_Witness ==
    /\ Len(InputWrites) = 2
    /\ InputWrites[2].ok
    /\ InputWrites[2].path \in DOMAIN files

-----------------------------------------------------------------------------
(* Configuration reader *)

Required(name, cause) == [name |-> name, cause |-> cause]

\* the variables read_args requires, in the order it reads them, given the
\* parsed flag and count as far as they are known
RequiredVariables(is_dataset_required, input_files_nb) ==
    <<Required(EnvName("IexecPreComputeOut"), "PreComputeOutputPathMissing"),
      Required(EnvName("IsDatasetRequired"), "PreComputeIsDatasetRequiredMissing")>>
    \o (IF is_dataset_required = Some(TRUE)
          THEN <<Required(EnvName("IexecDatasetUrl"), "PreComputeDatasetUrlMissing"),
                 Required(EnvName("IexecDatasetKey"), "PreComputeDatasetKeyMissing"),
                 Required(EnvName("IexecDatasetChecksum"),
                          "PreComputeDatasetChecksumMissing"),
                 Required(EnvName("IexecDatasetFilename"),
                          "PreComputeDatasetFilenameMissing")>>
          ELSE <<>>)
    \o (IF IsSome(is_dataset_required)
          THEN <<Required(EnvName("IexecInputFilesNumber"),
                          "PreComputeInputFilesNumberMissing")>>
          ELSE <<>>)
    \o (IF IsSome(input_files_nb)
          THEN [i \in 1..Unwrap(input_files_nb) |->
                    Required(InputFileUrlName(i),
                             "PreComputeAtLeastOneInputFileUrlMissing")]
          ELSE <<>>)

\* the names of the variables of the configuration
ConfigurationNames ==
    LET all == RequiredVariables(Some(TRUE), Some(MaxInputFiles))
    IN  {all[j].name : j \in 1..Len(all)}

NamedCauses ==
    LET all == RequiredVariables(Some(TRUE), Some(0))
    IN  [j \in 1..Len(all) |-> all[j].cause]

ReadArgsFailed == Len(steps) = 1 /\ steps[1].result \notin {"running", "Ok"}

\* C18: read_args fails with the cause of the first required variable, in
\* read order, that is absent or empty; the causes of the named variables are
\* pairwise distinct and none is the generic cause.
C18_FirstMissingVariable ==
    LET required == RequiredVariables(ra.is_dataset_required, ra.input_files_nb)
        read == {j \in 1..Len(required) : required[j].name \in DOMAIN env}
    IN  \* the variables are read in order, each one only after those before it
        /\ DOMAIN env \cap ConfigurationNames = {required[j].name : j \in read}
        /\ \A j \in read : \A i \in 1..j : i \in read
        \* an absent or empty variable ends read_args with its own cause, and
        \* nothing after it is read
        /\ \A j \in read :
            env[required[j].name] \in Absent
                => /\ ReadArgsFailed
                   /\ RunErr /\ RunCause = required[j].cause
                   /\ steps[1] = Returned("read_args", required[j].cause)
                   /\ \A i \in read : i <= j
                   /\ app.pre_compute_args = None
        \* read_args returns a configuration only when every variable was there
        /\ IsSome(app.pre_compute_args)
            => /\ read = 1..Len(required)
               /\ \A j \in read : env[required[j].name] \notin Absent
        /\ Cardinality(Range(NamedCauses)) = Len(NamedCauses)
        /\ "PreComputeFailedUnknownIssue" \notin Range(NamedCauses)
        /\ "PreComputeAtLeastOneInputFileUrlMissing" \notin Range(NamedCauses)
        /\ ReadArgsFailed => steps[1].result # "PreComputeFailedUnknownIssue"

C18_Witness ==
    /\ ReadArgsFailed
    /\ RunCause = "PreComputeDatasetFilenameMissing"
    /\ env[EnvName("IexecDatasetFilename")] = Some(<<>>)
    /\ env[EnvName("IexecDatasetChecksum")] \notin Absent

DatasetFields ==
    {"encrypted_dataset_url", "encrypted_dataset_base64_key",
     "encrypted_dataset_checksum", "plain_dataset_filename"}

\* C19: in every configuration read_args returns, the four dataset fields are
\* all present when is_dataset_required is true and all absent when it is
\* false; a dataset variable missing when required makes read_args fail.
C19_DatasetFieldsIffRequired ==
    /\ IsSome(app.pre_compute_args)
        => \A field \in DatasetFields :
            /\ IsSome(Args[field]) <=> Args.is_dataset_required
            /\ IsSome(Args[field]) => Unwrap(Args[field]) # <<>>
    /\ \A var \in DatasetVariables :
        (WasRead(var) /\ env[EnvName(var)] \in Absent)
            => /\ ra.is_dataset_required = Some(TRUE)
               /\ app.pre_compute_args = None
               /\ ReadArgsFailed
    \* when the flag is false the dataset variables are not looked at
    /\ NoDatasetRequired => \A var \in DatasetVariables : ~WasRead(var)

C19_Witness ==
    /\ IsSome(app.pre_compute_args)
    /\ Args.is_dataset_required
    /\ Args.encrypted_dataset_url = Some(IpfsDatasetUrl)
    /\ Args.plain_dataset_filename = Some(PlainDataFile)

IsBoolean(s) == to_lowercase(s) \in {<<"t", "r", "u", "e">>, <<"f", "a", "l", "s", "e">>}

\* IS_DATASET_REQUIRED has been read: it is set, not empty and not a boolean
NonBooleanFlag ==
    /\ WasRead("IsDatasetRequired")
    /\ env[EnvName("IsDatasetRequired")] \notin Absent
    /\ ~IsBoolean(Unwrap(env[EnvName("IsDatasetRequired")]))

\* the cause read_args returns when IS_DATASET_REQUIRED is missing
FlagMissingCause == NamedCauses[2]

\* C20 as stated: a dataset-required variable that is present and not a
\* boolean makes read_args fail with a cause other than the one it returns
\* when the variable is missing.
C20_NonBooleanHasOwnCause ==
    NonBooleanFlag => (ReadArgsFailed /\ RunErr /\ RunCause # FlagMissingCause)

\* C20 amended: it makes read_args fail with
\* PreComputeIsDatasetRequiredMissing, the cause of the missing variable.
C20_NonBooleanReportedAsMissing ==
    NonBooleanFlag
        => /\ ReadArgsFailed
           /\ RunErr /\ RunCause = FlagMissingCause
           /\ FlagMissingCause = "PreComputeIsDatasetRequiredMissing"
           /\ app.pre_compute_args = None
           /\ ~WasRead("IexecInputFilesNumber")
           /\ \A var \in DatasetVariables : ~WasRead(var)

C20_Witness ==
    /\ NonBooleanFlag
    /\ env[EnvName("IsDatasetRequired")] = Some(<<"y", "e", "s">>)
    /\ RunCause = "PreComputeIsDatasetRequiredMissing"

\* IEXEC_INPUT_FILES_NUMBER has been read: it is set, not empty and not a
\* non-negative integer
NotACount ==
    /\ WasRead("IexecInputFilesNumber")
    /\ env[EnvName("IexecInputFilesNumber")] \notin Absent
    /\ LET text == Unwrap(env[EnvName("IexecInputFilesNumber")])
       IN  \E i \in 1..Len(text) : DecDigit(text[i]) < 0

\* the cause read_args returns when IEXEC_INPUT_FILES_NUMBER is missing
CountMissingCause == NamedCauses[Len(NamedCauses)]

\* C21 as stated: an input-file count that is present and not a non-negative
\* integer makes read_args fail with a cause other than the one it returns
\* when the variable is missing.
C21_NotACountHasOwnCause ==
    NotACount => (ReadArgsFailed /\ RunErr /\ RunCause # CountMissingCause)

\* C21 amended: it makes read_args fail with
\* PreComputeInputFilesNumberMissing, the cause of the missing variable, and
\* no URL variable is read.
C21_NotACountReportedAsMissing ==
    NotACount
        => /\ ReadArgsFailed
           /\ RunErr /\ RunCause = CountMissingCause
           /\ CountMissingCause = "PreComputeInputFilesNumberMissing"
           /\ steps[1] = Returned("read_args", "PreComputeInputFilesNumberMissing")
           /\ ra.input_files_nb = None /\ ra.input_files = <<>>
           /\ app.pre_compute_args = None
           /\ \A i \in 1..MaxInputFiles : InputFileUrlName(i) \notin DOMAIN env

C21_Witness ==
    /\ NotACount
    /\ env[EnvName("IexecInputFilesNumber")] = Some(<<"-", "1">>)
    /\ RunCause = "PreComputeInputFilesNumberMissing"

-----------------------------------------------------------------------------
(* The indexed URL variables *)

\* the name of the i-th URL variable
UrlVariable(i) == "IEXEC_INPUT_FILE_URL_" \o ToString(i)

\* the indexes whose URL variable has been read
UrlIndexesRead == {i \in 0..(MaxInputFiles + 1) : UrlVariable(i) \in DOMAIN env}

\* C22: with a declared count N, read_args reads the URL variables 1..N in
\* increasing order and no other; on success input_files has length N and
\* its i-th element is the value of variable i; a variable that is absent or
\* empty ends read_args at the first such index with no configuration; for
\* N = 0 no URL variable is read and the list is empty.
C22_IndexedUrlsInOrder ==
    /\ IsNone(ra.input_files_nb) => (UrlIndexesRead = {} /\ ra.input_files = <<>>)
    /\ IsSome(ra.input_files_nb) =>
        LET N == Unwrap(ra.input_files_nb)
            read == UrlIndexesRead
            k == Cardinality(read)
        IN  /\ read = 1..k /\ k <= N
            \* the list holds the values read so far, in the order of the indexes
            /\ Len(ra.input_files) \in {k - 1, k} \cap 0..N
            /\ \A i \in 1..Len(ra.input_files) :
                /\ env[UrlVariable(i)] \notin Absent
                /\ ra.input_files[i] = Unwrap(env[UrlVariable(i)])
            \* an absent or empty variable is the last one read, and read_args
            \* fails there
            /\ \A i \in read :
                env[UrlVariable(i)] \in Absent
                    => /\ i = k /\ Len(ra.input_files) = k - 1
                       /\ ReadArgsFailed
                       /\ RunErr /\ RunCause = "PreComputeAtLeastOneInputFileUrlMissing"
                       /\ app.pre_compute_args = None
            /\ N = 0 => (read = {} /\ ra.input_files = <<>>)
            \* the configuration returned has the N values, never fewer
            /\ IsSome(app.pre_compute_args)
                => /\ read = 1..N
                   /\ Len(Args.input_files) = N
                   /\ \A i \in 1..N : Args.input_files[i] = Unwrap(env[UrlVariable(i)])

C22_Witness ==
    /\ IsSome(app.pre_compute_args)
    /\ ra.input_files_nb = Some(2)
    /\ Args.input_files = <<InputUrlB, InputUrlA>>
    /\ env[UrlVariable(1)] = Some(InputUrlB) /\ env[UrlVariable(2)] = Some(InputUrlA)

-----------------------------------------------------------------------------
(* Challenge signer *)

\* sign_enclave_challenge was called with a key that does not parse
SignedWithUnparsableKey ==
    /\ pc = "done"
    /\ IsSome(challenge_key)
    /\ ~parse_private_key(Unwrap(challenge_key)).ok

\* C23: when the enclave private key cannot be parsed the signer fails with
\* PreComputeTeeChallengePrivateKeyMissing; its only other failure, that of
\* the signing operation, is PreComputeInvalidTeeSignature.
C23_UnparsableKeyIsKeyMissing ==
    /\ SignedWithUnparsableKey
        => challenge = Some(Err("PreComputeTeeChallengePrivateKeyMissing"))
    /\ (pc = "done" /\ ChallengeErr /\ IsSome(challenge_key)
            /\ parse_private_key(Unwrap(challenge_key)).ok)
        => challenge = Some(Err("PreComputeInvalidTeeSignature"))

\* C24: get_challenge returns PreComputeWorkerAddressMissing when
\* SIGN_WORKER_ADDRESS is absent or empty, and
\* PreComputeTeeChallengePrivateKeyMissing when the address is there and
\* SIGN_TEE_CHALLENGE_PRIVATE_KEY is absent or empty; in both cases it returns
\* at once: no hash is computed and nothing is signed.
C24_MissingSignerVariables ==
    /\ (WasRead("SignWorkerAddress") /\ env[EnvName("SignWorkerAddress")] \in Absent)
        => /\ challenge = Some(Err("PreComputeWorkerAddressMissing"))
           /\ pc = "done"
           /\ worker_address = None /\ challenge_key = None
           /\ ~WasRead("SignTeeChallengePrivateKey")
    /\ (WasRead("SignTeeChallengePrivateKey")
            /\ env[EnvName("SignTeeChallengePrivateKey")] \in Absent)
        => /\ env[EnvName("SignWorkerAddress")] \notin Absent
           /\ worker_address = env[EnvName("SignWorkerAddress")]
           /\ challenge = Some(Err("PreComputeTeeChallengePrivateKeyMissing"))
           /\ pc = "done"
           /\ challenge_key = None
    \* the hash and the signature are made only with both values at hand
    /\ pc = "get_challenge_sign"
        => /\ IsSome(worker_address) /\ Unwrap(worker_address) # <<>>
           /\ IsSome(challenge_key) /\ Unwrap(challenge_key) # <<>>

C24_Witness ==
    /\ WasRead("SignTeeChallengePrivateKey")
    /\ env[EnvName("SignWorkerAddress")] = Some(WorkerAddressHex)
    /\ env[EnvName("SignTeeChallengePrivateKey")] = None
    /\ challenge = Some(Err("PreComputeTeeChallengePrivateKeyMissing"))

\* the signature of the signing key over the Keccak-256 digest of the bytes
\* of the task id followed by the bytes of the worker address
ExpectedSignature(chain_task_id, address, private_key) ==
    [signer |-> hex_string_to_byte_array(private_key).bytes,
     message |-> Keccak256(hex_string_to_byte_array(chain_task_id).bytes
                           \o hex_string_to_byte_array(address).bytes)]

\* C25: the signature get_challenge returns is a function of the task id, the
\* worker address and the private key alone: whatever the cause run returned,
\* the rest of the environment and the steps taken before, the same three
\* values give the same signature.
C25_SignatureOfThreeInputs ==
    ChallengeOk
        => /\ IsSome(task_id) /\ IsSome(worker_address) /\ IsSome(challenge_key)
           /\ LET expected == ExpectedSignature(Unwrap(task_id), Unwrap(worker_address),
                                                Unwrap(challenge_key))
              IN  /\ Unwrap(challenge).val = expected
                  /\ \A i \in 1..Len(posts) : posts[i].authorization = expected

C25_Witness ==
    /\ ChallengeOk
    /\ RunErr /\ RunCause = "PreComputeInvalidDatasetChecksum"
    /\ Len(fetches) = 2
    /\ Len(posts) = 1

-----------------------------------------------------------------------------
(* get_challenge called with a task id, in an environment that holds the
   signer's variables, as the tests of signer.rs do (lines 129-148) *)

HexPrefixes == {<<>>, <<"0", "x">>}

\* task ids as texts: up to MaxTaskIdDigits characters, hexadecimal or not,
\* in either case, with or without 0x
ChallengeTaskIds ==
    {prefix \o digits : prefix \in HexPrefixes,
                        digits \in SeqsUpTo({"0", "a", "A", "g"}, MaxTaskIdDigits)}

SignerInit ==
    /\ pc = "get_challenge"
    /\ task_id \in {Some(id) : id \in ChallengeTaskIds}
    /\ env = <<>>
    /\ exit_mode = None
    /\ exit_cause = "PreComputeFailedUnknownIssue"
    /\ app = [chain_task_id |-> None, pre_compute_args |-> None]
    /\ ra = NoArgs
    /\ run_result = None
    /\ gateway_idx = 1
    /\ downloaded = None
    /\ decrypt_calls = <<>>
    /\ encrypted_content = None
    /\ plain_content = None
    /\ input_idx = 1
    /\ dirs = {Slash, OutDir}
    /\ files = (OutFile :> <<>>)
    /\ worker_address = None
    /\ challenge_key = None
    /\ challenge = None
    /\ client = None
    /\ steps = <<>>
    /\ fetches = <<>>
    /\ writes = <<>>
    /\ posts = <<>>

SignerNext == get_challenge \/ get_challenge_private_key \/ get_challenge_sign

SignerSpec == SignerInit /\ [][SignerNext]_vars

\* the other inputs a signature is compared with
OtherWorkerAddresses ==
    {WorkerAddressHex, <<"0", "x", "A", "B">>, <<"a", "b">>, <<"0", "x", "0", "a", "b">>,
     <<"0", "x", "0", "a", "a", "b">>, <<"0", "x", "a", "a">>, <<"0", "x">>}
OtherPrivateKeys ==
    {ValidPrivateKey, <<"d", "d">>, <<"0", "x", "D", "D">>, <<"0", "x", "d", "e">>}

Input(chain_task_id, address, private_key) ==
    [task_id |-> chain_task_id, worker_address |-> address, private_key |-> private_key]

\* the inputs get_challenge signs without a panic and without an error
SignableInputs ==
    {in \in {Input(t, w, k) : t \in ChallengeTaskIds, w \in OtherWorkerAddresses,
                              k \in OtherPrivateKeys} :
        /\ ~hex_string_to_byte_array(in.task_id).panic
        /\ ~hex_string_to_byte_array(in.worker_address).panic
        /\ parse_private_key(in.private_key).ok}

\* what get_challenge returns on an input, lines 107-108
SignatureOf(in) ==
    sign_enclave_challenge(concatenate_and_hash(<<in.task_id, in.worker_address>>).val,
                           in.private_key).val

\* the bytes of the task id, of the worker address and of the key
Decoded(in) ==
    [task_id |-> hex_string_to_byte_array(in.task_id).bytes,
     worker_address |-> hex_string_to_byte_array(in.worker_address).bytes,
     private_key |-> hex_string_to_byte_array(in.private_key).bytes]

\* the concatenation that is hashed and signed
PreImage(in) == Decoded(in).task_id \o Decoded(in).worker_address

\* the input of the invocation that returned the signature of this state
Signed == Input(Unwrap(task_id), Unwrap(worker_address), Unwrap(challenge_key))

\* C26 as stated: an input that differs from the signed one in at least one
\* byte has another signature, and a different (task id, worker address)
\* pair has another pre-image.
C26_AnyByteChangesSignature ==
    ChallengeOk =>
        \A other \in SignableInputs :
            /\ other # Signed => SignatureOf(other) # Unwrap(challenge).val
            /\ <<other.task_id, other.worker_address>>
                    # <<Signed.task_id, Signed.worker_address>>
                => PreImage(other) # PreImage(Signed)

\* C26 amended: two inputs have the same signature exactly when they have the
\* same key and the same pre-image; the pre-image differs when the bytes of
\* the task ids or of the worker addresses differ and the task ids are
\* equally long; the way the bytes are written does not count.
C26_DecodedBytesChangeSignature ==
    ChallengeOk =>
        \A other \in SignableInputs :
            /\ SignatureOf(other) = Unwrap(challenge).val
                <=> /\ Decoded(other).private_key = Decoded(Signed).private_key
                    /\ PreImage(other) = PreImage(Signed)
            /\ (/\ Len(Decoded(other).task_id) = Len(Decoded(Signed).task_id)
                /\ Decoded(other) # Decoded(Signed))
                => SignatureOf(other) # Unwrap(challenge).val
            /\ Decoded(other) = Decoded(Signed)
                => SignatureOf(other) = Unwrap(challenge).val

C26_Witness ==
    /\ ChallengeOk
    /\ Signed = Input(<<"0", "x", "0", "a">>, WorkerAddressHex, ValidPrivateKey)
    /\ \E other \in SignableInputs :
        /\ Len(Decoded(other).task_id) = Len(Decoded(Signed).task_id)
        /\ Decoded(other).task_id # Decoded(Signed).task_id
        /\ SignatureOf(other) # Unwrap(challenge).val

-----------------------------------------------------------------------------
(* Worker report *)

\* C27: send_exit_cause_for_pre_compute_stage returns Ok exactly when the POST
\* got a 2xx response; a response outside 2xx and a transport failure are
\* returned as the same PreComputeFailedUnknownIssue, so the caller ends the
\* same way on both.
C27_OneGenericSendFailure ==
    \A i \in 1..Len(posts) :
        LET returned == send_exit_cause_result(posts[i].response)
        IN  /\ returned.ok <=> posts[i].response = "2xx"
            /\ ~returned.ok => returned = Err("PreComputeFailedUnknownIssue")
            /\ returned = Ok(Unit) <=> Exited("ReportedFailure")
            /\ returned = Err("PreComputeFailedUnknownIssue")
                <=> Exited("UnreportedFailure")
            \* what the caller is given does not tell the two failures apart
            /\ send_exit_cause_result("non_2xx")
                = send_exit_cause_result("transport_error")

C27_Witness ==
    /\ Len(posts) = 1
    /\ posts[1].response = "non_2xx"
    /\ Exited("UnreportedFailure")
    /\ RunErr /\ RunCause = "PreComputeOutputFolderNotFound"

\* the text of the address a report is posted to
ReportAddress(host, chain_task_id) ==
    <<"h", "t", "t", "p", ":", "/", "/">> \o host
        \o <<"/", "c", "o", "m", "p", "u", "t", "e", "/", "p", "r", "e", "/">>
        \o chain_task_id \o <<"/", "e", "x", "i", "t">>

\* C28: every report POST of a run goes to {base_url}/compute/pre/{id}/exit
\* where id is the task id read at the start of the run and base_url is
\* http://{WORKER_HOST_ENV_VAR} when that variable is set and not empty and
\* http://worker:13100 otherwise; its Authorization header is the string
\* get_challenge returned in this run.
C28_ReportAddressAndAuthorization ==
    /\ Len(posts) <= 1
    /\ \A i \in 1..Len(posts) :
        LET host_value == env[EnvName("WorkerHostEnvVar")]
            host == IF host_value \in Absent
                      THEN <<"w", "o", "r", "k", "e", "r", ":", "1", "3", "1", "0", "0">>
                      ELSE Unwrap(host_value)
        IN  /\ WasRead("IexecTaskId") /\ env[EnvName("IexecTaskId")] \notin Absent
            /\ posts[i].url = ReportAddress(host, Unwrap(env[EnvName("IexecTaskId")]))
            /\ ChallengeOk
            /\ posts[i].authorization = Unwrap(challenge).val
            /\ app.chain_task_id = env[EnvName("IexecTaskId")]

C28_Witness ==
    /\ Len(posts) = 1
    /\ env[EnvName("WorkerHostEnvVar")] = Some(WorkerHost)
    /\ posts[1].url = ReportAddress(WorkerHost, TaskIdHex)

-----------------------------------------------------------------------------
(* Causes of the dataset pipeline *)

DatasetRun == IsSome(app.pre_compute_args) /\ Args.is_dataset_required

LastStep == steps[Len(steps)]

\* the dataset was asked for and no request brought content
DatasetFetchFailed ==
    /\ fetches # <<>>
    /\ \A i \in 1..Len(fetches) : IsNone(fetches[i].response)
    /\ IF UsesGateways THEN Len(fetches) = Len(IPFS_GATEWAYS) ELSE Len(fetches) = 1

DatasetCauses ==
    <<"PreComputeDatasetDownloadFailed", "PreComputeInvalidDatasetChecksum",
      "PreComputeDatasetDecryptionFailed", "PreComputeSavingPlainDatasetFailed">>

\* C29: in the dataset pipeline a failed fetch (of the URL, or of every
\* gateway) gives PreComputeDatasetDownloadFailed, a checksum mismatch
\* PreComputeInvalidDatasetChecksum, a failed decryption
\* PreComputeDatasetDecryptionFailed and a failed write of the plain file
\* PreComputeSavingPlainDatasetFailed; the four causes are pairwise distinct
\* and each comes from its own step only.
C29_OwnCausePerDatasetStep ==
    /\ Cardinality(Range(DatasetCauses)) = 4
    /\ (DatasetRun /\ pc \notin DatasetPositions) =>
        \* a fetch that failed
        /\ DatasetFetchFailed
            => /\ RunErr /\ RunCause = DatasetCauses[1]
               /\ LastStep = Returned("download_encrypted_dataset", DatasetCauses[1])
        \* content whose digest is not the configured one
        /\ (IsSome(downloaded)
                /\ Mismatch(Unwrap(Args.encrypted_dataset_checksum), Unwrap(downloaded)))
            => /\ RunErr /\ RunCause = DatasetCauses[2]
               /\ LastStep = Returned("download_encrypted_dataset", DatasetCauses[2])
        \* a decryption that gave no plaintext
        /\ (decrypt_calls # <<>> /\ plain_content = None)
            => /\ RunErr /\ RunCause = DatasetCauses[3]
               /\ LastStep = Returned("decrypt_dataset", DatasetCauses[3])
        \* a write of the plain file that failed
        /\ (IsSome(plain_content) /\ writes # <<>> /\ ~writes[1].ok)
            => /\ RunErr /\ RunCause = DatasetCauses[4]
               /\ LastStep = Returned("save_plain_dataset_file", DatasetCauses[4])
        \* each cause is returned by its step alone, after what it stands for
        /\ (RunErr /\ RunCause = DatasetCauses[1])
            => (DatasetFetchFailed /\ downloaded = None)
        /\ (RunErr /\ RunCause = DatasetCauses[2])
            => /\ IsSome(downloaded) /\ decrypt_calls = <<>>
               /\ sha256_from_bytes(Unwrap(downloaded))
                    # Unwrap(Args.encrypted_dataset_checksum)
        /\ (RunErr /\ RunCause = DatasetCauses[3])
            => (decrypt_calls = <<Unwrap(encrypted_content)>>
                    /\ plain_content = None /\ writes = <<>>)
        /\ (RunErr /\ RunCause = DatasetCauses[4])
            => (Len(writes) = 1 /\ ~writes[1].ok /\ writes[1].content = Unwrap(plain_content))

C29_Witness ==
    /\ DatasetRun
    /\ RunErr /\ RunCause = "PreComputeSavingPlainDatasetFailed"
    /\ IsSome(plain_content)
    /\ Len(fetches) = 3

-----------------------------------------------------------------------------
(* decrypt_dataset called on an application built with its configuration, as
   the tests of pre_compute_app.rs do (lines 551-575): the key of the
   configuration and the encrypted content are the inputs *)

\* plaintexts of up to MaxPlainLen bytes, and one that fills a block
Plaintexts == SeqsUpTo({83, 111}, MaxPlainLen) \cup {Bytes(AES_IV_LENGTH, 83)}

Ivs == {DatasetIv, Bytes(AES_IV_LENGTH, 200)}

\* the IV followed by the AES-256-CBC encryption of the padded plaintext
Encrypted(iv, plain) == iv \o CbcEncrypt(DatasetKey, iv, Pkcs7Pad(plain))

ValidContents == {Encrypted(iv, plain) : iv \in Ivs, plain \in Plaintexts}

\* shorter than an IV
TooShortContents == {<<>>, ShortContent}

\* an IV and: nothing, a block that is not padded, a part of a block
BadlyPaddedContents == {DatasetIv, BadPaddingContent, DatasetIv \o ShortContent}

DecryptKeys == {DatasetKeyBase64, ShortKeyBase64, BadKeyBase64}

DecryptInit ==
    /\ pc = "decrypt_dataset"
    /\ \E key \in DecryptKeys :
        app = [get_pre_compute_app(TaskIdHex, <<>>, <<>>)
                    EXCEPT !.pre_compute_args[1].encrypted_dataset_base64_key = Some(key)]
    /\ encrypted_content \in
            {Some(c) : c \in ValidContents \cup TooShortContents \cup BadlyPaddedContents}
    /\ env = <<>>
    /\ exit_mode = None
    /\ task_id = Some(TaskIdHex)
    /\ exit_cause = "PreComputeFailedUnknownIssue"
    /\ ra = NoArgs
    /\ run_result = None
    /\ gateway_idx = 1
    /\ downloaded = None
    /\ decrypt_calls = <<>>
    /\ plain_content = None
    /\ input_idx = 1
    /\ dirs = {Slash, OutDir}
    /\ files = (OutFile :> <<>>)
    /\ worker_address = None
    /\ challenge_key = None
    /\ challenge = None
    /\ client = None
    /\ steps = <<>>
    /\ fetches = <<>>
    /\ writes = <<>>
    /\ posts = <<>>

DecryptNext == decrypt_dataset

DecryptSpec == DecryptInit /\ [][DecryptNext]_vars

\* the key of the configuration is base64 and is 32 bytes long
KeyIsUsable ==
    LET text == Unwrap(Args.encrypted_dataset_base64_key)
    IN  /\ \A i \in 1..Len(text) : text[i] # "_"
        /\ text # ShortKeyBase64

\* C30: decrypt_dataset returns PreComputeDatasetDecryptionFailed, and no
\* plaintext, when the key is not base64, when it is not 32 bytes long, when
\* the content is shorter than the 16 bytes of the IV and when what follows
\* the IV does not decrypt to PKCS#7 padded data; otherwise it decrypts what
\* follows the first 16 bytes with these 16 bytes as IV.
C30_DecryptionFailsWithoutPlaintext ==
    decrypt_calls # <<>> =>
        LET content == decrypt_calls[1]
            failing == \/ ~KeyIsUsable
                       \/ Len(content) < 16
                       \/ content \in BadlyPaddedContents
        IN  /\ decrypt_calls = <<Unwrap(encrypted_content)>>
            /\ failing
                => /\ run_result = Some(Err("PreComputeDatasetDecryptionFailed"))
                   /\ steps = <<Returned("decrypt_dataset",
                                         "PreComputeDatasetDecryptionFailed")>>
                   /\ plain_content = None
                   /\ pc # "save_plain_dataset_file"
            /\ ~failing
                => /\ run_result = None
                   /\ steps = <<Returned("decrypt_dataset", "Ok")>>
                   /\ pc = "save_plain_dataset_file"
                   /\ \E plain \in Plaintexts :
                        /\ content = Encrypted(SubSeq(content, 1, 16), plain)
                        /\ plain_content = Some(plain)

C30_Witness ==
    /\ decrypt_calls = <<BadPaddingContent>>
    /\ Args.encrypted_dataset_base64_key = Some(DatasetKeyBase64)
    /\ run_result = Some(Err("PreComputeDatasetDecryptionFailed"))

-----------------------------------------------------------------------------
(* decrypt_dataset on what an encryption produced: a plaintext is padded and
   encrypted with AES-256-CBC under a key and an IV, the application is
   configured with the base64 text of the key and is given the IV followed by
   the encryption (test decrypt_dataset_success_with_valid_dataset) *)

RoundTripKeys == {DatasetKeyBase64, SecondKeyBase64}

RoundTripIvs == Ivs \cup {[i \in 1..AES_IV_LENGTH |-> 255 - i]}

\* the plaintexts of Plaintexts and one that is longer than a block
RoundTripPlaintexts == Plaintexts \cup {Bytes(AES_IV_LENGTH + 1, 111)}

EncryptedWith(base64_key, iv, plain) ==
    iv \o CbcEncrypt(base64_decode(base64_key).val, iv, Pkcs7Pad(plain))

RoundTripInit ==
    /\ pc = "decrypt_dataset"
    /\ \E key \in RoundTripKeys :
        /\ app = [get_pre_compute_app(TaskIdHex, <<>>, <<>>)
                    EXCEPT !.pre_compute_args[1].encrypted_dataset_base64_key = Some(key)]
        /\ \E iv \in RoundTripIvs, plain \in RoundTripPlaintexts :
            encrypted_content = Some(EncryptedWith(key, iv, plain))
    /\ env = <<>>
    /\ exit_mode = None
    /\ task_id = Some(TaskIdHex)
    /\ exit_cause = "PreComputeFailedUnknownIssue"
    /\ ra = NoArgs
    /\ run_result = None
    /\ gateway_idx = 1
    /\ downloaded = None
    /\ decrypt_calls = <<>>
    /\ plain_content = None
    /\ input_idx = 1
    /\ dirs = {Slash, OutDir}
    /\ files = (OutFile :> <<>>)
    /\ worker_address = None
    /\ challenge_key = None
    /\ challenge = None
    /\ client = None
    /\ steps = <<>>
    /\ fetches = <<>>
    /\ writes = <<>>
    /\ posts = <<>>

RoundTripNext == decrypt_dataset

RoundTripSpec == RoundTripInit /\ [][RoundTripNext]_vars

\* C31: for every plaintext, every 32-byte key and every 16-byte IV, when
\* decrypt_dataset is configured with the base64 text of the key and is given
\* the IV followed by the AES-256-CBC/PKCS7 encryption of the plaintext under
\* that key and IV, it returns Ok with exactly the plaintext.
C31_DecryptionRoundTrip ==
    decrypt_calls # <<>> =>
        \A key \in RoundTripKeys, iv \in RoundTripIvs, plain \in RoundTripPlaintexts :
            (/\ Args.encrypted_dataset_base64_key = Some(key)
             /\ decrypt_calls = <<EncryptedWith(key, iv, plain)>>)
                => /\ steps = <<Returned("decrypt_dataset", "Ok")>>
                   /\ plain_content = Some(plain)
                   /\ run_result = None

C31_Witness ==
    /\ Args.encrypted_dataset_base64_key = Some(SecondKeyBase64)
    /\ \E iv \in RoundTripIvs \ Ivs :
        decrypt_calls = <<EncryptedWith(SecondKeyBase64, iv, Bytes(AES_IV_LENGTH + 1, 111))>>
    /\ plain_content = Some(Bytes(AES_IV_LENGTH + 1, 111))

-----------------------------------------------------------------------------
(* The functions of compute/utils/file_utils.rs called on their own, as the
   tests of file_utils.rs do (lines 230-326): the arguments of each call and
   what the network answers are the inputs *)

NotAUrl == <<"n", "o", "t", "-", "a", "-", "u", "r", "l">>

FetcherUrls == {<<>>, NotAUrl, InputUrlA}
FetcherDirs == {<<>>, OutDir, OutMissing}
FetcherNames == {<<>>, PlainDataFile}

\* a GET that was sent: its target, what arrived and what lines 169-171 made of it
Request(url, answer) == [url |-> url, answer |-> answer, response |-> ReceivedBytes(answer)]

FetcherInit ==
    /\ pc = "file_utils"
    /\ app = [chain_task_id |-> None, pre_compute_args |-> None]
    /\ env = <<>>
    /\ exit_mode = None
    /\ task_id = None
    /\ exit_cause = "PreComputeFailedUnknownIssue"
    /\ ra = NoArgs
    /\ run_result = None
    /\ gateway_idx = 1
    /\ downloaded = None
    /\ decrypt_calls = <<>>
    /\ encrypted_content = None
    /\ plain_content = None
    /\ input_idx = 1
    /\ dirs = {Slash, OutDir}
    /\ files = (OutFile :> <<>>)
    /\ worker_address = None
    /\ challenge_key = None
    /\ challenge = None
    /\ client = None
    /\ steps = <<>>
    /\ fetches = <<>>
    /\ writes = <<>>
    /\ posts = <<>>

fetcherFrame == <<env, exit_mode, task_id, exit_cause, app, ra, run_result,
                  gateway_idx, decrypt_calls, encrypted_content, plain_content,
                  input_idx, challengeVars, pc>>

\* download_from_url(url), lines 161-182
call_download_from_url ==
    /\ pc = "file_utils"
    /\ Len(steps) < MaxCalls
    /\ \E url \in FetcherUrls, answer \in HttpAnswers :
        LET sent == SendsRequest(url)
            result == download_from_url(url, ReceivedBytes(answer))
        IN  /\ fetches' = IF sent THEN Append(fetches, Request(url, answer)) ELSE fetches
            /\ downloaded' = result
            /\ steps' = Append(steps, [step |-> "download_from_url", url |-> url,
                                       parent_dir |-> <<>>, filename |-> <<>>,
                                       request |-> IF sent THEN Some(Request(url, answer))
                                                           ELSE None,
                                       result |-> result])
    /\ UNCHANGED <<fsVars, fetcherFrame>>

\* download_file(url, parent_dir, filename), lines 81-131
call_download_file ==
    /\ pc = "file_utils"
    /\ Len(steps) < MaxCalls
    /\ \E url \in FetcherUrls, parent_dir \in FetcherDirs, filename \in FetcherNames,
          answer \in HttpAnswers, created \in BOOLEAN, ok \in BOOLEAN :
        LET invalid == url = <<>> \/ parent_dir = <<>> \/ filename = <<>>
            sent == ~invalid /\ SendsRequest(url)
            bytes == IF invalid THEN None
                     ELSE download_from_url(url, ReceivedBytes(answer))
            parent_existed == PathExists(dirs, files, parent_dir)
            create_failed == ~parent_existed /\ ~created
            dirs_then == IF parent_existed \/ ~created THEN dirs
                         ELSE dirs \cup {parent_dir}
            file_path == PathJoin(parent_dir, filename)
            writing == IsSome(bytes) /\ ~create_failed
            written == writing /\ ok
        IN  /\ ok => CanWrite(dirs_then, file_path)
            /\ fetches' = IF sent THEN Append(fetches, Request(url, answer)) ELSE fetches
            /\ writes' = IF writing
                           THEN Append(writes, [path |-> file_path,
                                                content |-> Unwrap(bytes), ok |-> ok])
                           ELSE writes
            /\ files' = IF written THEN (file_path :> Unwrap(bytes)) @@ files ELSE files
            \* a directory created for a write that failed is removed again
            /\ dirs' = IF written THEN dirs_then ELSE dirs
            /\ steps' = Append(steps, [step |-> "download_file", url |-> url,
                                       parent_dir |-> parent_dir, filename |-> filename,
                                       request |-> IF sent THEN Some(Request(url, answer))
                                                           ELSE None,
                                       result |-> IF written THEN Some(file_path)
                                                             ELSE None])
    /\ UNCHANGED <<downloaded, fetcherFrame>>

FetcherNext == call_download_from_url \/ call_download_file

FetcherSpec == FetcherInit /\ [][FetcherNext]_vars

\* the calls of download_from_url that sent a request and got a response
Answered ==
    {i \in 1..Len(steps) :
        /\ steps[i].step = "download_from_url"
        /\ IsSome(steps[i].request)
        /\ IsSome(Unwrap(steps[i].request).answer)}

StatusOf(i) == Unwrap(Unwrap(steps[i].request).answer).status
BodyOf(i) == Unwrap(Unwrap(steps[i].request).answer).body

\* C32: download_from_url returns None for every response whose status is
\* outside 200..299, and so never returns the body of such a response.
C32_Non2xxIsFailure ==
    \A i \in Answered :
        StatusOf(i) \notin 200..299 => steps[i].result = None

\* C33: a call of download_from_url or download_file with an empty or
\* malformed URL, and a call of download_file with an empty parent directory
\* or an empty file name, returns None at once: no request is sent, no
\* directory is created and no file is written.
C33_InvalidArgumentsFailAtOnce ==
    [][Len(steps') = Len(steps) + 1 =>
        LET call == steps'[Len(steps')]
            bad_url == call.url \in {<<>>, NotAUrl}
            bad_target == /\ call.step = "download_file"
                          /\ call.parent_dir = <<>> \/ call.filename = <<>>
        IN  (bad_url \/ bad_target)
                => /\ call.result = None
                   /\ call.request = None
                   /\ fetches' = fetches
                   /\ dirs' = dirs
                   /\ files' = files
                   /\ writes' = writes]_vars

C33_Witness ==
    /\ Len(steps) = MaxCalls
    /\ steps[1] = [step |-> "download_file", url |-> NotAUrl, parent_dir |-> OutMissing,
                   filename |-> PlainDataFile, request |-> None, result |-> None]
    /\ steps[2].step = "download_file"
    /\ steps[2].url = InputUrlA
    /\ steps[2].filename = <<>>
    /\ fetches = <<>>
    /\ OutMissing \notin dirs
    /\ writes = <<>>

-----------------------------------------------------------------------------
(* Input files named by a multiaddress *)

\* C34: an input file whose URL parses as a multiaddress is fetched through
\* the gateways of IPFS_GATEWAYS, in order, until one succeeds; it is reported
\* as failed (PreComputeInputFileDownloadFailed) only when a request was sent
\* to every gateway and every one of them failed.
C34_InputFilesUseGateways ==
    (/\ InputFilesFailed
     /\ input_idx <= Len(Args.input_files)
     /\ is_multi_address(Args.input_files[input_idx]))
        => \A g \in 1..Len(IPFS_GATEWAYS) :
            \E k \in 1..Len(fetches) :
                fetches[k] = Fetch(IPFS_GATEWAYS[g] \o Args.input_files[input_idx], None)

-----------------------------------------------------------------------------
(* The report of a run *)

\* C35: in one run the reporting client is built at most once (the worker
\* host variable is read at most once) and at most one POST is sent; both
\* happen only after run has returned an error and get_challenge has returned
\* a signature, and a POST that failed is not sent again.
C35_OneClientOnePost ==
    [][/\ (client' # client \/ WasRead("WorkerHostEnvVar")' # WasRead("WorkerHostEnvVar"))
            => /\ client = None /\ IsSome(client')
               /\ ~WasRead("WorkerHostEnvVar") /\ WasRead("WorkerHostEnvVar")'
               /\ RunErr /\ ChallengeOk
               /\ posts = <<>>
       /\ posts' # posts
            => /\ posts = <<>> /\ Len(posts') = 1
               /\ IsSome(client)
               /\ RunErr /\ ChallengeOk
               /\ IsSome(exit_mode')]_vars

C35_Witness ==
    /\ IsSome(client)
    /\ WasRead("WorkerHostEnvVar")
    /\ Len(posts) = 1
    /\ posts[1].response = "non_2xx"
    /\ pc = "done"

-----------------------------------------------------------------------------
(* The plaintext dataset file *)

\* save_plain_dataset_file has been called in this run
SaveCalled == \E i \in 1..Len(steps) : steps[i].step = "save_plain_dataset_file"

\* C36: the plaintext dataset file is written only after the SHA-256 of the
\* downloaded bytes has matched the configured checksum and decrypt_dataset
\* has returned Ok on exactly these bytes; what is written is what
\* decrypt_dataset returned; a run whose download, checksum verification or
\* decryption failed writes no dataset file.
C36_PlaintextWrittenAfterVerification ==
    /\ (pc = "save_plain_dataset_file" \/ SaveCalled)
        => /\ IsSome(downloaded)
           /\ ~Mismatch(Unwrap(Args.encrypted_dataset_checksum), Unwrap(downloaded))
           /\ encrypted_content = downloaded
           /\ decrypt_calls = <<Unwrap(downloaded)>>
           /\ IsSome(plain_content)
           /\ decrypt_dataset_result(Unwrap(Args.encrypted_dataset_base64_key),
                                     Unwrap(downloaded)) = Ok(Unwrap(plain_content))
    /\ SaveCalled
        => /\ writes # <<>>
           /\ writes[1].content = Unwrap(plain_content)
    /\ ~SaveCalled
        => \A k \in 1..Len(writes) : writes[k].path \in {InputFilePath(url) : url \in InputUrls}
    /\ (RunErr /\ RunCause \in {"PreComputeDatasetDownloadFailed",
                                "PreComputeInvalidDatasetChecksum",
                                "PreComputeDatasetDecryptionFailed"})
        => /\ ~SaveCalled
           /\ writes = <<>>
           /\ DOMAIN files = {OutFile}

C36_Witness ==
    /\ SaveCalled
    /\ downloaded = Some(ValidCiphertext)
    /\ Len(writes) = 1
    /\ writes[1].ok
    /\ writes[1].content = PlainData
    /\ writes[1].path \in DOMAIN files

-----------------------------------------------------------------------------
(* The causes run returns *)

\* what the steps of run after read_args return
StepCauses ==
    {"PreComputeOutputFolderNotFound", "PreComputeDatasetDownloadFailed",
     "PreComputeInvalidDatasetChecksum", "PreComputeDatasetDecryptionFailed",
     "PreComputeSavingPlainDatasetFailed", "PreComputeInputFileDownloadFailed"}

\* the causes of start_with_app and of get_challenge
OutsideRunCauses ==
    {"PreComputeFailedUnknownIssue", "PreComputeTaskIdMissing",
     "PreComputeWorkerAddressMissing", "PreComputeTeeChallengePrivateKeyMissing",
     "PreComputeInvalidTeeSignature"}

\* C37: run returns only the configuration causes of read_args and
\* PreComputeOutputFolderNotFound, PreComputeDatasetDownloadFailed,
\* PreComputeInvalidDatasetChecksum, PreComputeDatasetDecryptionFailed,
\* PreComputeSavingPlainDatasetFailed, PreComputeInputFileDownloadFailed; it
\* never returns PreComputeFailedUnknownIssue, PreComputeTaskIdMissing,
\* PreComputeWorkerAddressMissing, PreComputeTeeChallengePrivateKeyMissing or
\* PreComputeInvalidTeeSignature, and these are all the causes there are.
C37_CausesOfRun ==
    /\ RunErr
        => /\ RunCause \in ConfigurationCauses \cup StepCauses
           /\ RunCause \notin OutsideRunCauses
           /\ RunCause \in ConfigurationCauses <=> StepNames = <<"read_args">>
           /\ steps[Len(steps)].result = RunCause
    /\ \A i \in 1..Len(steps) :
        steps[i].result \in {"running", "Ok"} \cup ConfigurationCauses \cup StepCauses
    /\ pc = "run"
        => /\ ConfigurationCauses \cap StepCauses = {}
           /\ ReplicateStatusCause \ (ConfigurationCauses \cup StepCauses) = OutsideRunCauses

C37_Witness ==
    /\ RunErr
    /\ RunCause = "PreComputeSavingPlainDatasetFailed"
    /\ StepNames[Len(steps)] = "save_plain_dataset_file"
    /\ Len(writes) = 1
    /\ ~writes[1].ok

-----------------------------------------------------------------------------
(* What the steps of run unwrap *)

\* where download_encrypted_dataset, decrypt_dataset and
\* save_plain_dataset_file are
DatasetStepLabels ==
    {"download_encrypted_dataset", "download_from_gateway", "download_from_dataset_url",
     "verify_dataset_checksum", "decrypt_dataset", "save_plain_dataset_file"}

\* where download_input_files is
InputStepLabels == {"download_input_files", "download_file"}

\* C38: in run, download_encrypted_dataset, decrypt_dataset,
\* save_plain_dataset_file and download_input_files are reached only with
\* chain_task_id and pre_compute_args set and, for the three dataset steps,
\* with the four dataset fields present: no unwrap of these steps fails, and
\* download_encrypted_dataset never answers PreComputeDatasetDownloadFailed
\* for an absent checksum.
C38_UnwrapsNeverFail ==
    /\ pc \in DatasetStepLabels \cup InputStepLabels
        => /\ IsSome(app.chain_task_id)
           /\ IsSome(app.pre_compute_args)
    /\ pc \in DatasetStepLabels
        => /\ Args.is_dataset_required
           /\ \A field \in DatasetFields : IsSome(Args[field])
    /\ pc = "verify_dataset_checksum"
        => LET r == verify_checksum_result(Args.encrypted_dataset_checksum,
                                           Unwrap(downloaded))
           IN  r.ok \/ r.err = "PreComputeInvalidDatasetChecksum"
    /\ (RunErr /\ RunCause = "PreComputeDatasetDownloadFailed")
        => /\ IsNone(downloaded)
           /\ IsSome(Args.encrypted_dataset_checksum)

C38_Witness ==
    /\ pc = "save_plain_dataset_file"
    /\ IsSome(app.chain_task_id)
    /\ \A field \in DatasetFields : IsSome(Args[field])
    /\ Args.input_files # <<>>

-----------------------------------------------------------------------------
(* Where a run writes *)

\* path is below the directory dir
Inside(dir, path) == IsPrefix(dir \o Slash, path) /\ Len(path) > Len(dir) + 1

\* C39: every file a run writes is inside output_dir, whatever the dataset
\* file name and the input URLs are: the plaintext dataset at output_dir
\* joined with plain_dataset_filename, each input file at output_dir joined
\* with its digest name.
C39_WritesInsideOutputDir ==
    \A k \in 1..Len(writes) :
        writes[k].ok => Inside(Args.output_dir, writes[k].path)

====
